---- MODULE Spec2Model ----
(***************************************************************************)
(* Model of the SSE adapter (src/src/sse-adapter/sse_handler.go): the two  *)
(* request handlers HandleStream (GET /stream/{conversation_id}) and       *)
(* HandleChat (POST /chat), the NATS subscription callback that feeds each *)
(* connection's bounded channel, the delivery loop, the forwarding         *)
(* goroutine and the deferred teardown.  The bus is core NATS: a message   *)
(* published on the conversation's subject is handed to the subscriptions  *)
(* that exist at that moment and is kept nowhere.                          *)
(*                                                                         *)
(* One conversation subject is modelled.  Sizes are scaled down: the       *)
(* channel capacity (100 in the source) is QueueDepth, int64 is an         *)
(* IntBits-bit two's complement integer.                                   *)
(*                                                                         *)
(* The Redis-NATS bridge (src/src/redis-nats-bridge/main.go) is modelled   *)
(* by the Bridge... actions and has a specification of its own,            *)
(* BridgeSpec: its startup, its message loop and what it publishes.        *)
(***************************************************************************)
EXTENDS Integers, Sequences, FiniteSets, TLC

\* ---------------------------------------------------------------- bounds
\* capacity of msgChan: make(chan *TokenMessage, 100), scaled
QueueDepth == 2
\* highest sequence number the producer side publishes
MaxSeq == 4
\* keep-alive ticks generated per connection
MaxKeepAlive == 1
\* width of the scaled int64
IntBits == 4
\* messages the bridge takes from the source in one run
MaxSource == 3
\* highest sequence number of an envelope published out of turn
MaxAnySeq == 2

Conns == {"c1"}
\* bridge instances run side by side ("Run 2-3 instances")
Bridges == {"b1", "b2"}
\* requests served by the origin at the same time
Requests == {"r1", "r2"}

MaxInt == 2 ^ (IntBits - 1) - 1
MinInt == 0 - 2 ^ (IntBits - 1)

\* ---------------------------------------------------------------- data
\* TokenMessage as it travels on the bus: ok = FALSE is a payload that
\* json.Unmarshal rejects.
Envelope(s, d) == [ok |-> TRUE, seq |-> s, done |-> d]
MalformedAccepted == [ok |-> TRUE, seq |-> 0, done |-> FALSE]
Malformed == [ok |-> FALSE, seq |-> 0, done |-> FALSE]

\* Last-Event-ID header values: absent, a decimal number, or not a number.
NoHeader == [kind |-> "none", n |-> 0]
BadHeader == [kind |-> "bad", n |-> 0]
NumHeader(n) == [kind |-> "num", n |-> n]
LastEventIDs ==
    {NoHeader, BadHeader}
        \cup {NumHeader(n) : n \in {0, 1, MaxInt, MaxInt + 1}}

\* conversation ids are uuid strings.  ClientID is the one a client names (in
\* the URL path, or in the body of POST /chat, where "" is a body without
\* one): an id it was given by an earlier connected event.
UUIDs == <<"uuid-1", "uuid-2">>
ClientID == UUIDs[1]
\* uuid.New().String(): a value nobody holds yet
NewUUID(used) ==
    UUIDs[CHOOSE i \in DOMAIN UUIDs :
              UUIDs[i] \notin used /\ \A j \in 1 .. i - 1 : UUIDs[j] \in used]
\* fmt.Sprintf("chat.%s.tokens", conversationID)
Subject(id) == <<"chat", id, "tokens">>

\* events written to the response body
Event(t, i, d) == [type |-> t, id |-> i, done |-> d, data |-> ""]
CommentEvent == Event("comment", 0, FALSE)
ConnectedEvent == Event("connected", 0, FALSE)
KeepAliveEvent == Event("keepalive", 0, FALSE)
ErrorEvent == Event("error", 0, FALSE)
\* event: connected / data: {"conversation_id":"%s"}
ConnectedWith(id) == [ConnectedEvent EXCEPT !.data = id]
\* event: error / data: {"error":"%s"} with err.Error() of the forwarding
\* goroutine, or with "timeout waiting for response"
ForwardErrorEvent == [ErrorEvent EXCEPT !.data = "LLM proxy error"]
TimeoutErrorEvent == [ErrorEvent EXCEPT !.data = "timeout waiting for response"]
\* event: token / id: %d (token.Sequence) / data: json.Marshal(token)
TokenEvent(m) == Event("token", m.seq, m.done)

\* fmt.Sscanf(lastEventID, "%d", &startSequence): stores the number when it
\* parses as an int64, leaves the variable untouched otherwise.
Sscanf(h, cur) ==
    IF h.kind = "num" /\ h.n >= MinInt /\ h.n <= MaxInt THEN h.n ELSE cur

\* startSequence++ on an int64 (wraps around)
Inc(x) == IF x = MaxInt THEN MinInt ELSE x + 1

\* lines 91-96
ParseStartSequence(h) ==
    IF h.kind # "none" THEN Inc(Sscanf(h, 0)) ELSE 0

\* lines 142-145: "Skip messages before our start sequence"
SkipBeforeStart(start, m) == start > 0 /\ m.seq <= start

\* case msgChan <- &token is ready
CanSendOneLess(q) == Len(q) < QueueDepth - 1
CanSendOneMore(q) == Len(q) <= QueueDepth
CanSend(q) == Len(q) < QueueDepth
\* msgChan <- &token
SendFront(q, m) == <<m>> \o q
SendSorted(q, m) ==
    LET before == SelectSeq(q, LAMBDA x : x.seq <= m.seq)
        after == SelectSeq(q, LAMBDA x : x.seq > m.seq)
    IN before \o <<m>> \o after
Send(q, m) == Append(q, m)
\* token := <-msgChan
Recv(q) == Head(q)
AfterRecvKeep(q) == q
AfterRecv(q) == Tail(q)

\* if token.Done { ...; return }
IsLastNever(token) == FALSE
IsLast(token) == token.done

\* ---------------------------------------------------------------- state
VARIABLES
    pc,                 \* position of each request handler
    kind,               \* "stream" (HandleStream) or "chat" (HandleChat)
    hdr,                \* the request's Last-Event-ID header
    startSequence,      \* HandleStream's startSequence
    status,             \* HTTP status of the response (200 once SSE headers are sent)
    connID,             \* h.connCount.Add(1)
    conversationID,     \* the handler's conversationID ("" before it is set)
    subActive,          \* the NATS subscription exists
    subAt,              \* number of messages published before it was created
    pending,            \* messages the bus handed to the subscription, callback not yet run
    nArrived,           \* number of envelopes the callback has been run with
    msgChan,            \* the connection's buffered channel
    doneChan,           \* TRUE once close(doneChan) has run
    dropLog,            \* sequences logged by "Message channel full, dropping message"
    out,                \* events written to the response
    ctxDone,            \* r.Context().Done() is closed
    tick,               \* keepAliveTicker.C holds a tick
    kaTicks,            \* ticks generated so far
    timer,              \* firstTokenTimeout: "none", "armed" (running), "fired" (its
                        \* tick sits in the channel), "idle" (stopped or tick read)
    receivedFirstToken,
    errChan,            \* capacity-one error channel of HandleChat
    fwd,                \* forwarding goroutine: "none", "running", "posted" (the origin
                        \* has the request), "done", "failed" (ended, never posted)
    originID,           \* the conversationID of the origin's handleChat for the
                        \* forwarded request ("" before the origin has it)
    published,          \* every envelope published on the subject, in order
    connCount,          \* h.connCount
    activeConnections,  \* the sse_active_connections gauge
    subscriptions,      \* keys of h.subscriptions
    bridgePC,           \* the bridge's main: "init", "redis" (Ping done), "nats"
                        \* (Connect done), "loop", "exited"
    exitStatus,         \* the bridge's exit status once it has exited
    sourceLog,          \* what the bridge took from msgCh, and what became of it
    natsLog,            \* the successful nc.Publish calls: subject and data
    msgCount,           \* msgCount of the message loop
    bridgeLog,          \* the bridge's slog.Error and slog.Warn lines
    relayed,            \* per bridge instance: how many source messages it has relayed
    genPC,              \* per request to the origin: "idle", "rejected", "request"
                        \* (streamFromLLM started), "streaming", "returned"
    sequence,           \* var sequence int64 of its streamFromLLM
    redisLog            \* the publishToken calls of its conversation (every request
                        \* gets a conversation id, and so a channel, of its own):
                        \* token, sequence, done, and whether rdb.Publish succeeded

connVars == <<pc, kind, hdr, startSequence, status, connID, conversationID>>
subVars == <<subActive, subAt, pending, nArrived, msgChan, doneChan, dropLog>>
loopVars == <<out, ctxDone, tick, kaTicks, timer, receivedFirstToken>>
fwdVars == <<errChan, fwd, originID>>
bridgeVars == <<bridgePC, exitStatus, sourceLog, natsLog, msgCount, bridgeLog>>
producerVars == <<relayed, genPC, sequence, redisLog>>
globalVars ==
    <<published, connCount, activeConnections, subscriptions, bridgeVars,
      producerVars>>
adapterVars ==
    <<connVars, subVars, loopVars, fwdVars, published, connCount,
      activeConnections, subscriptions>>
vars == <<connVars, subVars, loopVars, fwdVars, globalVars>>

Init ==
    /\ pc = [c \in Conns |-> "idle"]
    /\ kind = [c \in Conns |-> "none"]
    /\ hdr = [c \in Conns |-> NoHeader]
    /\ startSequence = [c \in Conns |-> 0]
    /\ status = [c \in Conns |-> 0]
    /\ connID = [c \in Conns |-> 0]
    /\ conversationID = [c \in Conns |-> ""]
    /\ subActive = [c \in Conns |-> FALSE]
    /\ subAt = [c \in Conns |-> 0]
    /\ pending = [c \in Conns |-> <<>>]
    /\ nArrived = [c \in Conns |-> 0]
    /\ msgChan = [c \in Conns |-> <<>>]
    /\ doneChan = [c \in Conns |-> FALSE]
    /\ dropLog = [c \in Conns |-> <<>>]
    /\ out = [c \in Conns |-> <<>>]
    /\ ctxDone = [c \in Conns |-> FALSE]
    /\ tick = [c \in Conns |-> FALSE]
    /\ kaTicks = [c \in Conns |-> 0]
    /\ timer = [c \in Conns |-> "none"]
    /\ receivedFirstToken = [c \in Conns |-> FALSE]
    /\ errChan = [c \in Conns |-> <<>>]
    /\ fwd = [c \in Conns |-> "none"]
    /\ originID = [c \in Conns |-> ""]
    /\ published = <<>>
    /\ connCount = 0
    /\ activeConnections = 0
    /\ subscriptions = {}
    /\ bridgePC = "init"
    /\ exitStatus = 0
    /\ sourceLog = <<>>
    /\ natsLog = <<>>
    /\ msgCount = 0
    /\ bridgeLog = <<>>
    /\ relayed = [b \in Bridges |-> 0]
    /\ genPC = [r \in Requests |-> "idle"]
    /\ sequence = [r \in Requests |-> 0]
    /\ redisLog = [r \in Requests |-> <<>>]

\* Two requests served by the adapter at the same time: the state after
\* construction is the same, with room for two handlers.
ConnPair == {"c1", "c2"}

PairInit ==
    /\ pc = [c \in ConnPair |-> "idle"]
    /\ kind = [c \in ConnPair |-> "none"]
    /\ hdr = [c \in ConnPair |-> NoHeader]
    /\ startSequence = [c \in ConnPair |-> 0]
    /\ status = [c \in ConnPair |-> 0]
    /\ connID = [c \in ConnPair |-> 0]
    /\ conversationID = [c \in ConnPair |-> ""]
    /\ subActive = [c \in ConnPair |-> FALSE]
    /\ subAt = [c \in ConnPair |-> 0]
    /\ pending = [c \in ConnPair |-> <<>>]
    /\ nArrived = [c \in ConnPair |-> 0]
    /\ msgChan = [c \in ConnPair |-> <<>>]
    /\ doneChan = [c \in ConnPair |-> FALSE]
    /\ dropLog = [c \in ConnPair |-> <<>>]
    /\ out = [c \in ConnPair |-> <<>>]
    /\ ctxDone = [c \in ConnPair |-> FALSE]
    /\ tick = [c \in ConnPair |-> FALSE]
    /\ kaTicks = [c \in ConnPair |-> 0]
    /\ timer = [c \in ConnPair |-> "none"]
    /\ receivedFirstToken = [c \in ConnPair |-> FALSE]
    /\ errChan = [c \in ConnPair |-> <<>>]
    /\ fwd = [c \in ConnPair |-> "none"]
    /\ originID = [c \in ConnPair |-> ""]
    /\ published = <<>>
    /\ connCount = 0
    /\ activeConnections = 0
    /\ subscriptions = {}
    /\ bridgePC = "init"
    /\ exitStatus = 0
    /\ sourceLog = <<>>
    /\ natsLog = <<>>
    /\ msgCount = 0
    /\ bridgeLog = <<>>
    /\ relayed = [b \in Bridges |-> 0]
    /\ genPC = [r \in Requests |-> "idle"]
    /\ sequence = [r \in Requests |-> 0]
    /\ redisLog = [r \in Requests |-> <<>>]

\* ---------------------------------------------------------------- the bus
RECURSIVE LastSeq(_)
\* highest sequence number among a list of envelopes (0 if none)
LastSeq(ms) ==
    IF ms = <<>> THEN 0
    ELSE LET r == LastSeq(Tail(ms))
         IN IF Head(ms).seq > r THEN Head(ms).seq ELSE r

\* Some request is still to come or still being served: what is published
\* after the last connection has closed is seen by nobody and not modelled.
Observable == \E c \in DOMAIN pc : pc[c] # "closed"

\* The bus hands a subscription one message at a time: the next one is
\* published when the callbacks have been run with the previous one.  (When a
\* message is published is seen by no connection, only when its callback runs.)
BusReady == \A c \in DOMAIN pending : pending[c] = <<>>

DeliverCoupled(m) ==
    pending' = [c \in DOMAIN pending |->
                  IF subActive[c]
                       /\ \A d \in DOMAIN pending : subActive[d] => CanSend(msgChan[d])
                  THEN Append(pending[c], m) ELSE pending[c]]

\* nc.Publish(subject, data) on core NATS: the message goes to the
\* subscriptions that exist now; nobody else ever sees it.
Deliver(m) ==
    pending' = [c \in DOMAIN pending |->
                  IF subActive[c] THEN Append(pending[c], m) ELSE pending[c]]

\* The producer side publishes the conversation's next envelope: sequence
\* numbers 1, 2, 3, ... (sequence++ in streamFromLLM), relayed by the bridge
\* with nc.Publish.  Which envelopes carry done = true is left open.
PublishEnvelope ==
    /\ Observable
    /\ BusReady
    /\ LastSeq(published) < MaxSeq
    /\ \E d \in BOOLEAN :
        /\ published' = Append(published, Envelope(LastSeq(published) + 1, d))
        /\ Deliver(Envelope(LastSeq(published) + 1, d))
        /\ UNCHANGED <<connVars, subActive, subAt, nArrived, msgChan, doneChan,
                       dropLog, loopVars, fwdVars, connCount, bridgeVars, producerVars, activeConnections,
                       subscriptions>>

\* The envelopes of one conversation on the Redis channel, as the origin
\* publishes them: 1, 2, ..., the last one terminal.
Source == [k \in 1 .. MaxSource |-> Envelope(k, k = MaxSource)]

\* One iteration of the message loop of bridge instance b (main.go, lines
\* 142-174): every instance has its own Redis subscription, so each takes
\* every source message, in order, and publishes it on the subject.
BridgeRelay(b) ==
    /\ relayed[b] < Len(Source)
    /\ Observable
    /\ BusReady
    /\ relayed' = [relayed EXCEPT ![b] = @ + 1]
    /\ published' = Append(published, Source[relayed[b] + 1])
    /\ Deliver(Source[relayed[b] + 1])
    /\ UNCHANGED <<connVars, subActive, subAt, nArrived, msgChan, doneChan,
                   dropLog, loopVars, fwdVars, connCount, activeConnections,
                   subscriptions, bridgeVars, genPC, sequence, redisLog>>

\* The bridge relays whatever decodes, with the sequence number it finds in
\* the payload (0 when the payload has none) and in the order it gets it:
\* an envelope with any sequence number appears on the subject.
PublishAny ==
    \E s \in 0 .. MaxAnySeq :
        /\ Len(published) < MaxSource
        /\ Observable
        /\ BusReady
        /\ published' = Append(published, Envelope(s, FALSE))
        /\ Deliver(Envelope(s, FALSE))
        /\ UNCHANGED <<connVars, subActive, subAt, nArrived, msgChan, doneChan,
                       dropLog, loopVars, fwdVars, connCount, activeConnections,
                       subscriptions, bridgeVars, producerVars>>

\* A payload that does not decode appears on the subject (where nobody is
\* subscribed it changes nothing).
PublishMalformed ==
    /\ \E c \in DOMAIN subActive : subActive[c]
    /\ BusReady
    /\ Deliver(Malformed)
    /\ UNCHANGED <<connVars, subActive, subAt, nArrived, msgChan, doneChan,
                   dropLog, loopVars, fwdVars, globalVars>>

\* ---------------------------------------------------------------- callback
\* The select of the subscription callback.  Outcomes: "send" (case
\* msgChan <- &token), "done" (case <-doneChan), "drop" (default).  A case
\* that is ready excludes default; two ready cases are chosen between at
\* random.
SelectOutcomes(q, closed) ==
    LET ready == (IF CanSend(q) THEN {"send"} ELSE {})
                     \cup (IF closed THEN {"done"} ELSE {})
    IN IF ready = {} THEN {"drop"} ELSE ready

\* func(msg *nats.Msg) of HandleStream (lines 135-157) and of HandleChat
\* (lines 316-333; no start-sequence filter there).
Callback(c) ==
    /\ subActive[c]
    /\ pending[c] # <<>>
    /\ LET m == Head(pending[c]) IN
        /\ pending' = [pending EXCEPT ![c] = Tail(@)]
        /\ nArrived' = [nArrived EXCEPT ![c] = IF m.ok THEN @ + 1 ELSE @]
        /\ IF ~m.ok
             THEN UNCHANGED <<msgChan, dropLog>>
           ELSE IF kind[c] = "stream" /\ SkipBeforeStart(startSequence[c], m)
             THEN UNCHANGED <<msgChan, dropLog>>
           ELSE \E o \in SelectOutcomes(msgChan[c], doneChan[c]) :
                  /\ msgChan' = [msgChan EXCEPT ![c] =
                                   IF o = "send" THEN Send(@, m) ELSE @]
                  /\ dropLog' = [dropLog EXCEPT ![c] =
                                   IF o = "drop" THEN Append(@, m.seq) ELSE @]
    /\ UNCHANGED <<connVars, subActive, subAt, doneChan, loopVars, fwdVars,
                   published, connCount, activeConnections, subscriptions,
                   bridgeVars, producerVars>>

\* ---------------------------------------------------------------- requests
Write(c, e) == out' = [out EXCEPT ![c] = Append(@, e)]

RejectTracked(c, k, code) ==
    /\ pc' = [pc EXCEPT ![c] = "closed"]
    /\ kind' = [kind EXCEPT ![c] = k]
    /\ status' = [status EXCEPT ![c] = code]
    /\ connCount' = connCount + 1
    /\ connID' = [connID EXCEPT ![c] = connCount + 1]
    /\ UNCHANGED <<hdr, startSequence, conversationID, subVars, loopVars, fwdVars,
                   published, activeConnections, subscriptions, bridgeVars, producerVars>>

\* an early "http.Error(...); return": a status and nothing else
Reject(c, k, code) ==
    /\ pc' = [pc EXCEPT ![c] = "closed"]
    /\ kind' = [kind EXCEPT ![c] = k]
    /\ status' = [status EXCEPT ![c] = code]
    /\ UNCHANGED <<hdr, startSequence, connID, conversationID, subVars, loopVars, fwdVars,
                   globalVars>>

\* connID := h.connCount.Add(1); activeConnections.Inc()
Track(c) ==
    /\ connCount' = connCount + 1
    /\ connID' = [connID EXCEPT ![c] = connCount + 1]
    /\ activeConnections' = activeConnections + 1

\* HandleStream, lines 80-126: the request up to connection tracking
StreamRequest(c) ==
    /\ pc[c] = "idle"
    /\ \E emptyID \in BOOLEAN, h \in LastEventIDs :
         IF emptyID
         THEN Reject(c, "stream", 400)
         ELSE /\ pc' = [pc EXCEPT ![c] = "tracked"]
              /\ kind' = [kind EXCEPT ![c] = "stream"]
              /\ conversationID' = [conversationID EXCEPT ![c] = ClientID]
              /\ hdr' = [hdr EXCEPT ![c] = h]
              /\ startSequence' = [startSequence EXCEPT ![c] = ParseStartSequence(h)]
              /\ status' = [status EXCEPT ![c] = 200]
              /\ Track(c)
              /\ UNCHANGED <<subVars, loopVars, fwdVars, published, subscriptions,
                             bridgeVars, producerVars>>

\* HandleChat, lines 239-306: the request up to connection tracking
ChatRequest(c) ==
    /\ pc[c] = "idle"
    /\ \E method \in {"POST", "OPTIONS", "GET"}, proxyURL \in {"", "url"},
          body \in {"ok", "badjson", "emptymsg"}, id \in {"", ClientID} :
         IF method = "OPTIONS" THEN Reject(c, "chat", 200)
         ELSE IF method # "POST" THEN Reject(c, "chat", 405)
         ELSE IF proxyURL = "" THEN Reject(c, "chat", 503)
         ELSE IF body # "ok" THEN Reject(c, "chat", 400)
         ELSE /\ pc' = [pc EXCEPT ![c] = "tracked"]
              /\ kind' = [kind EXCEPT ![c] = "chat"]
              /\ conversationID' =
                     [conversationID EXCEPT ![c] = IF id = "" THEN NewUUID({}) ELSE id]
              /\ status' = [status EXCEPT ![c] = 200]
              /\ Track(c)
              /\ UNCHANGED <<hdr, startSequence, subVars, loopVars, fwdVars,
                             published, subscriptions, bridgeVars, producerVars>>

\* h.nc.Subscribe(subject, callback) succeeds; h.subscriptions.Store(connID, sub)
Subscribe(c) ==
    /\ pc[c] = "tracked"
    /\ pc' = [pc EXCEPT ![c] = "subscribed"]
    /\ subActive' = [subActive EXCEPT ![c] = TRUE]
    /\ subAt' = [subAt EXCEPT ![c] = Len(published)]
    /\ subscriptions' = subscriptions \cup {connID[c]}
    /\ UNCHANGED <<kind, hdr, startSequence, status, connID, conversationID, pending, nArrived,
                   msgChan, doneChan, dropLog, loopVars, fwdVars, published,
                   connCount, activeConnections, bridgeVars, producerVars>>

SubscribeFailStored(c) ==
    /\ pc[c] = "tracked"
    /\ pc' = [pc EXCEPT ![c] = "closed"]
    /\ status' = [status EXCEPT ![c] = 500]
    /\ subscriptions' = subscriptions \cup {connID[c]}
    /\ activeConnections' = activeConnections - 1
    /\ UNCHANGED <<kind, hdr, startSequence, connID, conversationID, subVars, loopVars, fwdVars,
                   published, connCount, bridgeVars, producerVars>>

SubscribeFailNoDec(c) ==
    /\ pc[c] = "tracked"
    /\ pc' = [pc EXCEPT ![c] = "closed"]
    /\ status' = [status EXCEPT ![c] = 500]
    /\ UNCHANGED <<kind, hdr, startSequence, connID, conversationID, subVars, loopVars, fwdVars,
                   globalVars>>

\* h.nc.Subscribe fails: "Failed to subscribe", 500, return (the deferred
\* activeConnections.Dec() runs)
SubscribeFail(c) ==
    /\ pc[c] = "tracked"
    /\ pc' = [pc EXCEPT ![c] = "closed"]
    /\ status' = [status EXCEPT ![c] = 500]
    /\ activeConnections' = activeConnections - 1
    /\ UNCHANGED <<kind, hdr, startSequence, connID, conversationID, subVars, loopVars, fwdVars,
                   published, connCount, subscriptions, bridgeVars, producerVars>>

\* HandleStream, lines 177-183: the initial comment, then the ticker
StreamConnected(c) ==
    /\ pc[c] = "subscribed"
    /\ kind[c] = "stream"
    /\ pc' = [pc EXCEPT ![c] = "loop"]
    /\ Write(c, CommentEvent)
    /\ UNCHANGED <<kind, hdr, startSequence, status, connID, conversationID, subVars, ctxDone,
                   tick, kaTicks, timer, receivedFirstToken, fwdVars, globalVars>>

ChatConnectedSilent(c) ==
    /\ pc[c] = "subscribed"
    /\ kind[c] = "chat"
    /\ pc' = [pc EXCEPT ![c] = "connected"]
    /\ UNCHANGED <<kind, hdr, startSequence, status, connID, conversationID, subVars, loopVars,
                   fwdVars, globalVars>>

\* HandleChat, lines 353-356: the connected event
ChatConnected(c) ==
    /\ pc[c] = "subscribed"
    /\ kind[c] = "chat"
    /\ pc' = [pc EXCEPT ![c] = "connected"]
    /\ Write(c, ConnectedWith(conversationID[c]))
    /\ UNCHANGED <<kind, hdr, startSequence, status, connID, conversationID, subVars, ctxDone,
                   tick, kaTicks, timer, receivedFirstToken, fwdVars, globalVars>>

ChatStartForwardEarly(c) ==
    /\ pc[c] = "tracked"
    /\ kind[c] = "chat"
    /\ fwd[c] = "none"
    /\ fwd' = [fwd EXCEPT ![c] = "running"]
    /\ UNCHANGED <<connVars, subVars, loopVars, errChan, originID, globalVars>>

\* HandleChat, lines 358-397: go func() {...}(), the ticker, the first-token
\* timer, receivedFirstToken := false
ChatStartForward(c) ==
    /\ pc[c] = "connected"
    /\ pc' = [pc EXCEPT ![c] = "loop"]
    /\ fwd' = [fwd EXCEPT ![c] = "running"]
    /\ timer' = [timer EXCEPT ![c] = "armed"]
    /\ UNCHANGED <<kind, hdr, startSequence, status, connID, conversationID, subVars, out,
                   ctxDone, tick, kaTicks, receivedFirstToken, errChan, originID,
                   globalVars>>

\* ---------------------------------------------------------------- forwarding
\* http.Post reaches the origin: its handleChat decodes {message} from the
\* body (ChatRequest there has no other field), takes a conversation id of
\* its own and starts streamFromLLM with it
ForwardPost(c) ==
    /\ fwd[c] = "running"
    /\ fwd' = [fwd EXCEPT ![c] = "posted"]
    /\ originID' = [originID EXCEPT ![c] = NewUUID({conversationID[c]})]
    /\ UNCHANGED <<connVars, subVars, loopVars, errChan, globalVars>>

ForwardErrorTwice(c) ==
    /\ fwd[c] \in {"running", "posted"}
    /\ fwd' = [fwd EXCEPT ![c] = IF @ = "running" THEN "posted" ELSE "done"]
    /\ errChan' = [errChan EXCEPT ![c] = Append(@, "err")]
    /\ UNCHANGED <<connVars, subVars, loopVars, originID, globalVars>>

\* http.Post returns an error (before or after the origin saw the request):
\* errChan <- err
ForwardError(c) ==
    /\ fwd[c] \in {"running", "posted"}
    /\ fwd' = [fwd EXCEPT ![c] = IF @ = "running" THEN "failed" ELSE "done"]
    /\ errChan' = [errChan EXCEPT ![c] = Append(@, "err")]
    /\ UNCHANGED <<connVars, subVars, loopVars, originID, globalVars>>

\* the origin answers: 200 or 202 ends the goroutine, anything else is sent
\* on errChan
ForwardResponse(c) ==
    /\ fwd[c] = "posted"
    /\ \E code \in {200, 202, 500} :
         /\ fwd' = [fwd EXCEPT ![c] = "done"]
         /\ errChan' = [errChan EXCEPT ![c] =
                          IF code \in {200, 202} THEN @ ELSE Append(@, "err")]
    /\ UNCHANGED <<connVars, subVars, loopVars, originID, globalVars>>

\* The origin (handleChat of the stream proxy) starts generating, and so
\* publishing envelopes, for a request once it has received it.
OriginMayPublish(c) == fwd[c] \in {"posted", "done"}

\* ---------------------------------------------------------------- delivery loop
\* "return" out of the loop and the first deferred calls:
\* firstTokenTimeout.Stop(), keepAliveTicker.Stop() (a tick left in a stopped
\* timer's channel is read by nobody) and close(doneChan).  sub.Unsubscribe()
\* follows in Teardown.
Exit(c) ==
    /\ pc' = [pc EXCEPT ![c] = "closing"]
    /\ doneChan' = [doneChan EXCEPT ![c] = TRUE]

StopTimers(c) ==
    /\ tick' = [tick EXCEPT ![c] = FALSE]
    /\ timer' = [timer EXCEPT ![c] = IF @ = "none" THEN @ ELSE "idle"]

\* firstTokenTimeout.Stop(): a timer that has not fired is stopped; one whose
\* tick already sits in its channel keeps the tick (Go before 1.23) or loses
\* it (Go 1.23 and later).
StopOutcomes(t) ==
    IF t = "armed" THEN {"idle"}
    ELSE IF t = "fired" THEN {"fired", "idle"}
    ELSE {t}

LoopDisconnectStay(c) ==
    /\ pc[c] = "loop"
    /\ ctxDone[c]
    /\ UNCHANGED vars

\* case <-r.Context().Done()
LoopDisconnect(c) ==
    /\ pc[c] = "loop"
    /\ ctxDone[c]
    /\ Exit(c)
    /\ StopTimers(c)
    /\ UNCHANGED <<kind, hdr, startSequence, status, connID, conversationID, subActive, subAt,
                   pending, nArrived, msgChan, dropLog, out, ctxDone, kaTicks,
                   receivedFirstToken, fwdVars, globalVars>>

\* case token := <-msgChan (lines 192-226 and 422-442)
LoopToken(c) ==
    /\ pc[c] = "loop"
    /\ msgChan[c] # <<>>
    /\ LET token == Recv(msgChan[c]) IN
        /\ msgChan' = [msgChan EXCEPT ![c] = AfterRecv(@)]
        /\ Write(c, TokenEvent(token))
        /\ receivedFirstToken' =
               [receivedFirstToken EXCEPT ![c] = IF kind[c] = "chat" THEN TRUE ELSE @]
        /\ IF IsLast(token)
             THEN /\ Exit(c)
                  /\ StopTimers(c)
             ELSE /\ UNCHANGED <<pc, doneChan, tick>>
                  /\ IF kind[c] = "chat"
                       THEN \E t \in StopOutcomes(timer[c]) :
                              timer' = [timer EXCEPT ![c] = t]
                       ELSE UNCHANGED timer
    /\ UNCHANGED <<kind, hdr, startSequence, status, connID, conversationID, subActive, subAt,
                   pending, nArrived, dropLog, ctxDone, kaTicks, fwdVars,
                   globalVars>>

LoopKeepAliveIdleClose(c) ==
    /\ pc[c] = "loop"
    /\ tick[c]
    /\ Write(c, KeepAliveEvent)
    /\ Exit(c)
    /\ StopTimers(c)
    /\ UNCHANGED <<kind, hdr, startSequence, status, connID, conversationID, subActive, subAt,
                   pending, nArrived, msgChan, dropLog, ctxDone, kaTicks,
                   receivedFirstToken, fwdVars, globalVars>>

LoopKeepAliveCounts(c) ==
    /\ pc[c] = "loop"
    /\ tick[c]
    /\ tick' = [tick EXCEPT ![c] = FALSE]
    /\ Write(c, KeepAliveEvent)
    /\ receivedFirstToken' =
           [receivedFirstToken EXCEPT ![c] = IF kind[c] = "chat" THEN TRUE ELSE @]
    /\ timer' = [timer EXCEPT ![c] = IF @ = "armed" THEN "idle" ELSE @]
    /\ UNCHANGED <<connVars, subVars, ctxDone, kaTicks, fwdVars, globalVars>>

\* case <-keepAliveTicker.C
LoopKeepAlive(c) ==
    /\ pc[c] = "loop"
    /\ tick[c]
    /\ tick' = [tick EXCEPT ![c] = FALSE]
    /\ Write(c, KeepAliveEvent)
    /\ UNCHANGED <<connVars, subVars, ctxDone, kaTicks, timer,
                   receivedFirstToken, fwdVars, globalVars>>

LoopErrorBeforeFirstToken(c) ==
    /\ pc[c] = "loop"
    /\ errChan[c] # <<>>
    /\ ~receivedFirstToken[c]
    /\ errChan' = [errChan EXCEPT ![c] = Tail(@)]
    /\ Write(c, ForwardErrorEvent)
    /\ Exit(c)
    /\ StopTimers(c)
    /\ UNCHANGED <<kind, hdr, startSequence, status, connID, conversationID, subActive, subAt,
                   pending, nArrived, msgChan, dropLog, ctxDone, kaTicks,
                   receivedFirstToken, fwd, originID, globalVars>>

LoopErrorNoReturn(c) ==
    /\ pc[c] = "loop"
    /\ errChan[c] # <<>>
    /\ errChan' = [errChan EXCEPT ![c] = Tail(@)]
    /\ Write(c, ForwardErrorEvent)
    /\ UNCHANGED <<connVars, subVars, ctxDone, tick, kaTicks, timer,
                   receivedFirstToken, fwd, originID, globalVars>>

\* case err := <-errChan (lines 406-411)
LoopError(c) ==
    /\ pc[c] = "loop"
    /\ errChan[c] # <<>>
    /\ errChan' = [errChan EXCEPT ![c] = Tail(@)]
    /\ Write(c, ForwardErrorEvent)
    /\ Exit(c)
    /\ StopTimers(c)
    /\ UNCHANGED <<kind, hdr, startSequence, status, connID, conversationID, subActive, subAt,
                   pending, nArrived, msgChan, dropLog, ctxDone, kaTicks,
                   receivedFirstToken, fwd, originID, globalVars>>

LoopTimeoutNoReturn(c) ==
    /\ pc[c] = "loop"
    /\ timer[c] = "fired"
    /\ timer' = [timer EXCEPT ![c] = "idle"]
    /\ IF ~receivedFirstToken[c]
         THEN Write(c, TimeoutErrorEvent)
         ELSE UNCHANGED out
    /\ UNCHANGED <<connVars, subVars, ctxDone, tick, kaTicks,
                   receivedFirstToken, fwdVars, globalVars>>

LoopTimeoutAlways(c) ==
    /\ pc[c] = "loop"
    /\ timer[c] = "fired"
    /\ Write(c, TimeoutErrorEvent)
    /\ Exit(c)
    /\ StopTimers(c)
    /\ UNCHANGED <<kind, hdr, startSequence, status, connID, conversationID, subActive, subAt,
                   pending, nArrived, msgChan, dropLog, ctxDone, kaTicks,
                   receivedFirstToken, fwdVars, globalVars>>

\* case <-firstTokenTimeout.C (lines 413-420)
LoopTimeout(c) ==
    /\ pc[c] = "loop"
    /\ timer[c] = "fired"
    /\ IF ~receivedFirstToken[c]
         THEN /\ Write(c, TimeoutErrorEvent)
              /\ Exit(c)
              /\ StopTimers(c)
         ELSE /\ timer' = [timer EXCEPT ![c] = "idle"]
              /\ UNCHANGED <<out, pc, doneChan, tick>>
    /\ UNCHANGED <<kind, hdr, startSequence, status, connID, conversationID, subActive, subAt,
                   pending, nArrived, msgChan, dropLog, ctxDone, kaTicks,
                   receivedFirstToken, fwdVars, globalVars>>

TeardownWaits(c) ==
    /\ pc[c] = "closing"
    /\ pending[c] = <<>>
    /\ pc' = [pc EXCEPT ![c] = "closed"]
    /\ subActive' = [subActive EXCEPT ![c] = FALSE]
    /\ subscriptions' = subscriptions \ {connID[c]}
    /\ activeConnections' = activeConnections - 1
    /\ UNCHANGED <<kind, hdr, startSequence, status, connID, conversationID, subAt, pending,
                   nArrived, msgChan, doneChan, dropLog, loopVars, fwdVars, published,
                   connCount, bridgeVars, producerVars>>

TeardownKeepEntry(c) ==
    /\ pc[c] = "closing"
    /\ pc' = [pc EXCEPT ![c] = "closed"]
    /\ subActive' = [subActive EXCEPT ![c] = FALSE]
    /\ pending' = [pending EXCEPT ![c] = <<>>]
    /\ activeConnections' = activeConnections - 1
    /\ UNCHANGED <<kind, hdr, startSequence, status, connID, conversationID, subAt, nArrived,
                   msgChan, doneChan, dropLog, loopVars, fwdVars, published,
                   connCount, subscriptions, bridgeVars, producerVars>>

\* the rest of the deferred function: sub.Unsubscribe(),
\* h.subscriptions.Delete(connID), then activeConnections.Dec()
Teardown(c) ==
    /\ pc[c] = "closing"
    /\ pc' = [pc EXCEPT ![c] = "closed"]
    /\ subActive' = [subActive EXCEPT ![c] = FALSE]
    /\ pending' = [pending EXCEPT ![c] = <<>>]
    /\ subscriptions' = subscriptions \ {connID[c]}
    /\ activeConnections' = activeConnections - 1
    /\ UNCHANGED <<kind, hdr, startSequence, status, connID, conversationID, subAt, nArrived,
                   msgChan, doneChan, dropLog, loopVars, fwdVars, published,
                   connCount, bridgeVars, producerVars>>

\* ---------------------------------------------------------------- environment
\* the client goes away: the request context is cancelled (the handler looks
\* at the context in its loop only, so an earlier cancellation is seen there)
ClientDisconnect(c) ==
    /\ pc[c] = "loop"
    /\ ~ctxDone[c]
    /\ ctxDone' = [ctxDone EXCEPT ![c] = TRUE]
    /\ UNCHANGED <<connVars, subVars, out, tick, kaTicks, timer,
                   receivedFirstToken, fwdVars, globalVars>>

\* 15 seconds pass: the ticker puts a tick in its channel (capacity one)
KeepAliveTick(c) ==
    /\ pc[c] = "loop"
    /\ ~tick[c]
    /\ kaTicks[c] < MaxKeepAlive
    /\ tick' = [tick EXCEPT ![c] = TRUE]
    /\ kaTicks' = [kaTicks EXCEPT ![c] = @ + 1]
    /\ UNCHANGED <<connVars, subVars, out, ctxDone, timer, receivedFirstToken,
                   fwdVars, globalVars>>

\* 30 seconds pass since the timer was created and it was not stopped
TimerFire(c) ==
    /\ pc[c] = "loop"
    /\ timer[c] = "armed"
    /\ timer' = [timer EXCEPT ![c] = "fired"]
    /\ UNCHANGED <<connVars, subVars, out, ctxDone, tick, kaTicks,
                   receivedFirstToken, fwdVars, globalVars>>

\* ---------------------------------------------------------------- the bridge
\* TokenMessage of the bridge and of the origin (the same five fields)
Keys == {"conversation_id", "token", "sequence", "done", "timestamp"}
TokenMessage(c, t, s, d, ts) ==
    [conversation_id |-> c, token |-> t, sequence |-> s, done |-> d,
     timestamp |-> ts]
\* var token TokenMessage
ZeroToken == TokenMessage("", "", 0, FALSE, 0)

\* A payload: text that is a JSON object with the members has (of the five
\* known names, with values of the right type) and perhaps others (extra),
\* or text json.Unmarshal rejects (wellformed = FALSE).
Object(has, val, extra) ==
    [wellformed |-> TRUE, has |-> has, val |-> val, extra |-> extra]
Garbled == [wellformed |-> FALSE, has |-> {}, val |-> ZeroToken, extra |-> FALSE]

\* json.Marshal(token): an object with exactly the five members
MarshalRenumbered(token) ==
    Object(Keys, [token EXCEPT !.sequence = @ + 1], FALSE)
Marshal(token) == Object(Keys, token, FALSE)

\* json.Unmarshal([]byte(msg.Payload), &token): an error for text that is
\* no JSON object of the right types; otherwise the known members present
\* are stored, the others are ignored, and absent fields keep their value.
UnmarshalLenient(p, cur) ==
    [err |-> FALSE,
     token |-> [k \in Keys |-> IF k \in p.has THEN p.val[k] ELSE cur[k]]]
Unmarshal(p, cur) ==
    IF ~p.wellformed
    THEN [err |-> TRUE, token |-> cur]
    ELSE [err |-> FALSE,
          token |-> [k \in Keys |-> IF k \in p.has THEN p.val[k] ELSE cur[k]]]

\* what the origin's publishToken puts on the source
Payload(c, s, d) == Object(Keys, TokenMessage(c, "tok", s, d, 1), FALSE)
\* the payloads the source carries: envelopes of two conversations (so also
\* the same (conversation_id, sequence) pair again), one with a member the
\* bridge does not know, one without token, done and timestamp, and one
\* that is no JSON
Payloads ==
    {Payload(UUIDs[i], n, FALSE) : i \in DOMAIN UUIDs, n \in {1, 2}}
        \cup {[Payload(UUIDs[1], 2, TRUE) EXCEPT !.extra = TRUE],
              Object({"conversation_id", "sequence"},
                     [ZeroToken EXCEPT !.conversation_id = UUIDs[2],
                                       !.sequence = 2], FALSE),
              Garbled}
\* msg := <-msgCh: a *redis.Message, possibly nil
Message(p) == [nil |-> FALSE, payload |-> p]
NilMessage == [nil |-> TRUE, payload |-> Garbled]
SourceMessages == {NilMessage} \cup {Message(p) : p \in Payloads}

\* nc.Publish(subject, data) succeeding, as the bus sees it
NatsPublishFront(log, subject, data) ==
    <<[subject |-> subject, data |-> data]>> \o log
NatsPublish(log, subject, data) ==
    Append(log, [subject |-> subject, data |-> data])

\* os.Exit(1) after slog.Error(line)
BridgeFatal(line) ==
    /\ bridgePC' = "exited"
    /\ exitStatus' = 1
    /\ bridgeLog' = Append(bridgeLog, line)
    /\ UNCHANGED <<sourceLog, natsLog, msgCount, adapterVars, producerVars>>

BridgeStep(to) ==
    /\ bridgePC' = to
    /\ UNCHANGED <<exitStatus, sourceLog, natsLog, msgCount, bridgeLog, adapterVars, producerVars>>

\* lines 83-94: rdb.Ping
BridgePing ==
    /\ bridgePC = "init"
    /\ \E ok \in BOOLEAN :
         IF ok THEN BridgeStep("redis")
         ELSE BridgeFatal("Failed to connect to Redis")

\* lines 97-107: nats.Connect
BridgeConnect ==
    /\ bridgePC = "redis"
    /\ \E ok \in BOOLEAN :
         IF ok THEN BridgeStep("nats")
         ELSE BridgeFatal("Failed to connect to NATS")

BridgePSubscribeIgnoreError ==
    /\ bridgePC = "nats"
    /\ \E ok \in BOOLEAN :
         IF ok THEN BridgeStep("loop")
         ELSE /\ bridgePC' = "loop"
              /\ bridgeLog' = Append(bridgeLog, "Failed to subscribe to Redis channel")
              /\ UNCHANGED <<exitStatus, sourceLog, natsLog, msgCount, adapterVars, producerVars>>

\* lines 115-134: rdb.PSubscribe, pubsub.Receive, pubsub.Channel
BridgePSubscribe ==
    /\ bridgePC = "nats"
    /\ \E ok \in BOOLEAN :
         IF ok THEN BridgeStep("loop")
         ELSE BridgeFatal("Failed to subscribe to Redis channel")

\* lines 142-180: one iteration of the message loop on case msg := <-msgCh
BridgeReceive ==
    /\ bridgePC = "loop"
    /\ Len(sourceLog) < MaxSource
    /\ \E msg \in SourceMessages, publishErr \in BOOLEAN :
         LET r == Unmarshal(msg.payload, ZeroToken)
             subject == Subject(r.token.conversation_id)
             data == Marshal(r.token)
             result == IF msg.nil THEN "nil"
                       ELSE IF r.err THEN "undecodable"
                       ELSE IF publishErr THEN "failed"
                       ELSE "bridged"
         IN /\ sourceLog' = Append(sourceLog, [msg |-> msg, result |-> result])
            /\ natsLog' = IF result = "bridged"
                            THEN NatsPublish(natsLog, subject, data)
                            ELSE natsLog
            /\ msgCount' = IF result = "bridged" THEN msgCount + 1 ELSE msgCount
            /\ bridgeLog' =
                  IF result = "nil" THEN Append(bridgeLog, "Received nil message")
                  ELSE IF result = "undecodable"
                    THEN Append(bridgeLog, "Failed to unmarshal message")
                  ELSE IF result = "failed"
                    THEN Append(bridgeLog, "Failed to publish to NATS")
                  ELSE bridgeLog
    /\ UNCHANGED <<bridgePC, exitStatus, adapterVars, producerVars>>

\* lines 138-140: case <-quit: main returns
BridgeQuit ==
    /\ bridgePC = "loop"
    /\ bridgePC' = "exited"
    /\ exitStatus' = 0
    /\ UNCHANGED <<sourceLog, natsLog, msgCount, bridgeLog, adapterVars, producerVars>>

\* ---------------------------------------------------------------- the origin
\* publishToken(ctx, conversationID, token, sequence, done): the call
Call(token, seq, done) == [token |-> token, seq |-> seq, done |-> done]
\* ... and its rdb.Publish, which may fail (logged, nothing else)
PublishToken(log, call, ok) ==
    Append(log, [token |-> call.token, seq |-> call.seq, done |-> call.done,
                 ok |-> ok])

\* sequence+1 of the terminal envelope (lines 204, 219)
DoneSequenceReused(seq) == seq
DoneSequence(seq) == seq + 1

\* one element of chunk.Choices: has it delta content, has it a finish_reason
Choice(content, finish) == [content |-> content, finish |-> finish]
ChoiceLists ==
    LET one == {Choice(c, f) : c \in BOOLEAN, f \in BOOLEAN}
    IN {<<>>} \cup {<<a>> : a \in one} \cup {<<a, b>> : a \in one, b \in one}

\* the lines reader.ReadString returns: a read error or io.EOF, a line that
\* is blank or has no "data: " prefix, "data: [DONE]", data that is not a
\* StreamChunk, or a chunk
Line(k, cs) == [kind |-> k, choices |-> cs]
Lines ==
    {Line(k, <<>>) : k \in {"eof", "readerr", "skip", "[DONE]", "badjson"}}
        \cup {Line("chunk", cs) : cs \in ChoiceLists}

RECURSIVE RangeChoices(_, _)
\* for _, choice := range chunk.Choices (lines 213-222): the sequence counter
\* afterwards, the publishToken calls made, and whether the function returned
RangeChoices(cs, seq) ==
    IF cs = <<>> THEN [sequence |-> seq, calls |-> <<>>, returned |-> FALSE]
    ELSE LET choice == Head(cs)
             s1 == IF choice.content THEN seq + 1 ELSE seq
             own == IF choice.content THEN <<Call("tok", s1, FALSE)>> ELSE <<>>
         IN IF choice.finish
              THEN [sequence |-> s1,
                    calls |-> Append(own, Call("[DONE]", DoneSequence(s1), TRUE)),
                    returned |-> TRUE]
              ELSE LET r == RangeChoices(Tail(cs), s1)
                   IN [r EXCEPT !.calls = own \o @]

\* what one line read does (lines 189-222)
ReadLine(line, seq) ==
    IF line.kind \in {"eof", "readerr"}
      THEN [sequence |-> seq, calls |-> <<>>, returned |-> TRUE]
    ELSE IF line.kind = "[DONE]"
      THEN [sequence |-> seq,
            calls |-> <<Call("[DONE]", DoneSequence(seq), TRUE)>>,
            returned |-> TRUE]
    ELSE IF line.kind = "chunk" THEN RangeChoices(line.choices, seq)
    ELSE [sequence |-> seq, calls |-> <<>>, returned |-> FALSE]

RECURSIVE PublishAll(_, _, _, _)
\* the calls made in order; the calls whose index is in failed fail to publish
PublishAll(log, calls, failed, i) ==
    IF i > Len(calls) THEN log
    ELSE PublishAll(PublishToken(log, calls[i], i \notin failed), calls, failed, i + 1)

\* handleChat of the stream proxy (lines 113-142)
OriginHandleChat(r) ==
    /\ genPC[r] = "idle"
    /\ \E method \in {"POST", "GET"}, body \in {"ok", "badjson", "emptymsg"} :
         genPC' = [genPC EXCEPT ![r] =
                     IF method = "POST" /\ body = "ok" THEN "request" ELSE "rejected"]
    /\ UNCHANGED <<sequence, redisLog, relayed, bridgeVars, adapterVars>>

\* streamFromLLM up to the read loop (lines 144-186): the request to the
\* model server fails (http.NewRequest, Do, or a status other than 200), or
\* the response body is there to be read
StreamFromLLMRequest(r) ==
    /\ genPC[r] = "request"
    /\ \E outcome \in {"newrequest", "do", "status", "ok"}, publishOK \in BOOLEAN :
         IF outcome = "ok"
         THEN /\ genPC' = [genPC EXCEPT ![r] = "streaming"]
              /\ sequence' = [sequence EXCEPT ![r] = 0]
              /\ UNCHANGED redisLog
         ELSE /\ genPC' = [genPC EXCEPT ![r] = "returned"]
              /\ redisLog' = [redisLog EXCEPT ![r] =
                                PublishToken(@, Call("[ERROR]", 1, TRUE), publishOK)]
              /\ UNCHANGED sequence
    /\ UNCHANGED <<relayed, bridgeVars, adapterVars>>

\* one iteration of the read loop (lines 188-223)
StreamFromLLMLine(r) ==
    /\ genPC[r] = "streaming"
    /\ \E line \in Lines :
         LET res == ReadLine(line, sequence[r]) IN
           /\ res.sequence < MaxSeq
           /\ \E failed \in SUBSET DOMAIN res.calls :
                redisLog' = [redisLog EXCEPT ![r] = PublishAll(@, res.calls, failed, 1)]
           /\ sequence' = [sequence EXCEPT ![r] = res.sequence]
           /\ genPC' = [genPC EXCEPT ![r] = IF res.returned THEN "returned" ELSE "streaming"]
    /\ UNCHANGED <<relayed, bridgeVars, adapterVars>>

\* ---------------------------------------------------------------- specification
Next ==
    \/ PublishEnvelope
    \/ PublishMalformed
    \/ \E c \in Conns : StreamRequest(c)
    \/ \E c \in Conns : ChatRequest(c)
    \/ \E c \in Conns : Subscribe(c)
    \/ \E c \in Conns : SubscribeFail(c)
    \/ \E c \in Conns : StreamConnected(c)
    \/ \E c \in Conns : ChatConnected(c)
    \/ \E c \in Conns : ChatStartForward(c)
    \/ \E c \in Conns : Callback(c)
    \/ \E c \in Conns : ForwardPost(c)
    \/ \E c \in Conns : ForwardError(c)
    \/ \E c \in Conns : ForwardResponse(c)
    \/ \E c \in Conns : LoopDisconnect(c)
    \/ \E c \in Conns : LoopToken(c)
    \/ \E c \in Conns : LoopKeepAlive(c)
    \/ \E c \in Conns : LoopError(c)
    \/ \E c \in Conns : LoopTimeout(c)
    \/ \E c \in Conns : Teardown(c)
    \/ \E c \in Conns : ClientDisconnect(c)
    \/ \E c \in Conns : KeepAliveTick(c)
    \/ \E c \in Conns : TimerFire(c)

Spec == Init /\ [][Next]_vars

\* Every goroutine that can take a step eventually takes one, and a select
\* whose case stays ready eventually chooses it (Go picks among the ready
\* cases at random).  The environment (publishers, the client, the timers,
\* the origin's answer) owes nothing.
Fairness ==
    \A c \in Conns :
        /\ WF_vars(StreamConnected(c))
        /\ WF_vars(ChatConnected(c))
        /\ WF_vars(ChatStartForward(c))
        /\ WF_vars(Callback(c))
        /\ WF_vars(LoopDisconnect(c))
        /\ WF_vars(LoopToken(c))
        /\ WF_vars(LoopKeepAlive(c))
        /\ WF_vars(LoopError(c))
        /\ WF_vars(LoopTimeout(c))
        /\ WF_vars(Teardown(c))

FairSpec == Spec /\ Fairness

\* The GET /stream side alone: HandleStream, its callback, its loop and the
\* bus, under the same fairness.
StreamNext ==
    \/ PublishEnvelope
    \/ PublishMalformed
    \/ \E c \in Conns : StreamRequest(c)
    \/ \E c \in Conns : Subscribe(c)
    \/ \E c \in Conns : SubscribeFail(c)
    \/ \E c \in Conns : StreamConnected(c)
    \/ \E c \in Conns : Callback(c)
    \/ \E c \in Conns : LoopDisconnect(c)
    \/ \E c \in Conns : LoopToken(c)
    \/ \E c \in Conns : LoopKeepAlive(c)
    \/ \E c \in Conns : Teardown(c)
    \/ \E c \in Conns : ClientDisconnect(c)
    \/ \E c \in Conns : KeepAliveTick(c)

StreamFairSpec == Init /\ [][StreamNext]_vars /\ Fairness

\* The POST /chat side alone: HandleChat, its callback, its forwarding
\* goroutine, its loop and timers, and the bus.
ChatNext ==
    \/ PublishEnvelope
    \/ \E c \in Conns : ChatRequest(c)
    \/ \E c \in Conns : Subscribe(c)
    \/ \E c \in Conns : SubscribeFail(c)
    \/ \E c \in Conns : ChatConnected(c)
    \/ \E c \in Conns : ChatStartForward(c)
    \/ \E c \in Conns : Callback(c)
    \/ \E c \in Conns : ForwardPost(c)
    \/ \E c \in Conns : ForwardError(c)
    \/ \E c \in Conns : ForwardResponse(c)
    \/ \E c \in Conns : LoopDisconnect(c)
    \/ \E c \in Conns : LoopToken(c)
    \/ \E c \in Conns : LoopKeepAlive(c)
    \/ \E c \in Conns : LoopError(c)
    \/ \E c \in Conns : LoopTimeout(c)
    \/ \E c \in Conns : Teardown(c)
    \/ \E c \in Conns : ClientDisconnect(c)
    \/ \E c \in Conns : KeepAliveTick(c)
    \/ \E c \in Conns : TimerFire(c)

ChatSpec == Init /\ [][ChatNext]_vars

\* The bridge alone: one run of its main, from startup to exit.
BridgeNext ==
    \/ BridgePing
    \/ BridgeConnect
    \/ BridgePSubscribe
    \/ BridgeReceive
    \/ BridgeQuit

BridgeSpec == Init /\ [][BridgeNext]_vars

\* GET /stream behind two bridge instances that relay the same source.
HANext ==
    \/ \E b \in Bridges : BridgeRelay(b)
    \/ \E c \in Conns : StreamRequest(c)
    \/ \E c \in Conns : Subscribe(c)
    \/ \E c \in Conns : StreamConnected(c)
    \/ \E c \in Conns : Callback(c)
    \/ \E c \in Conns : LoopToken(c)
    \/ \E c \in Conns : Teardown(c)

HASpec == Init /\ [][HANext]_vars

\* GET /stream on a subject where envelopes arrive with any sequence number
\* in any order.
AnyOrderNext ==
    \/ PublishAny
    \/ \E c \in Conns : StreamRequest(c)
    \/ \E c \in Conns : Subscribe(c)
    \/ \E c \in Conns : StreamConnected(c)
    \/ \E c \in Conns : Callback(c)
    \/ \E c \in Conns : LoopToken(c)
    \/ \E c \in Conns : LoopDisconnect(c)
    \/ \E c \in Conns : Teardown(c)
    \/ \E c \in Conns : ClientDisconnect(c)

AnyOrderSpec == Init /\ [][AnyOrderNext]_vars

\* Two GET /stream connections on the same conversation, served at the same
\* time, behind one bridge instance that relays the source.
PairNext ==
    \/ BridgeRelay("b1")
    \/ \E c \in ConnPair : StreamRequest(c)
    \/ \E c \in ConnPair : Subscribe(c)
    \/ \E c \in ConnPair : SubscribeFail(c)
    \/ \E c \in ConnPair : StreamConnected(c)
    \/ \E c \in ConnPair : Callback(c)
    \/ \E c \in ConnPair : LoopToken(c)
    \/ \E c \in ConnPair : LoopDisconnect(c)
    \/ \E c \in ConnPair : Teardown(c)
    \/ \E c \in ConnPair : ClientDisconnect(c)

PairSpec == PairInit /\ [][PairNext]_vars

\* Two requests of either kind from admission to return, on a quiet subject:
\* nothing is published, the origin does not answer and no timer runs out
\* while they are served.
AdmissionNext ==
    \/ \E c \in ConnPair : StreamRequest(c)
    \/ \E c \in ConnPair : ChatRequest(c)
    \/ \E c \in ConnPair : Subscribe(c)
    \/ \E c \in ConnPair : SubscribeFail(c)
    \/ \E c \in ConnPair : StreamConnected(c)
    \/ \E c \in ConnPair : ChatConnected(c)
    \/ \E c \in ConnPair : ChatStartForward(c)
    \/ \E c \in ConnPair : LoopDisconnect(c)
    \/ \E c \in ConnPair : Teardown(c)
    \/ \E c \in ConnPair : ClientDisconnect(c)

AdmissionSpec == PairInit /\ [][AdmissionNext]_vars

\* The origin alone: one request to the stream proxy and its generation.
OriginNext ==
    \/ \E r \in Requests : OriginHandleChat(r)
    \/ \E r \in Requests : StreamFromLLMRequest(r)
    \/ \E r \in Requests : StreamFromLLMLine(r)

OriginSpec == Init /\ [][OriginNext]_vars

\* ---------------------------------------------------------------- properties
IsToken(e) == e.type = "token"
\* the token events written on a connection, in order
Tokens(c) == SelectSeq(out[c], IsToken)
\* the envelopes the connection's callback has been run with, in order
Arrived(c) == SubSeq(published, subAt[c] + 1, subAt[c] + nArrived[c])
\* the envelope a token event was written from
EnvelopeOf(e) == Envelope(e.id, e.done)

StrictlyIncreasingIds(es) ==
    \A i, j \in DOMAIN es : i < j => es[i].id < es[j].id

RECURSIVE IsSubsequence(_, _)
\* a is b with some elements left out (order kept, no element used twice)
IsSubsequence(a, b) ==
    IF a = <<>> THEN TRUE
    ELSE IF b = <<>> THEN FALSE
    ELSE IF Head(a) = Head(b) THEN IsSubsequence(Tail(a), Tail(b))
    ELSE IsSubsequence(a, Tail(b))

TokenEnvelopes(c) == [i \in DOMAIN Tokens(c) |-> EnvelopeOf(Tokens(c)[i])]

\* C1 (ordering): on every connection, of either kind, the ids of the token
\* events written so far are strictly increasing, and every token event
\* carries the sequence number (and done flag) of an envelope that was
\* published on the subject.
C1_Ordering ==
    \A c \in Conns :
        /\ StrictlyIncreasingIds(Tokens(c))
        /\ \A i \in DOMAIN Tokens(c) :
              \E k \in DOMAIN published : published[k] = EnvelopeOf(Tokens(c)[i])

\* an envelope was dropped on a full queue and token events on both sides of
\* it were written
C1_Witness ==
    \E c \in Conns :
        /\ dropLog[c] # <<>>
        /\ \E i, j \in DOMAIN Tokens(c) :
              Tokens(c)[i].id < dropLog[c][1] /\ dropLog[c][1] < Tokens(c)[j].id

\* the position of the first envelope published with done = true (0 if none)
FirstDone ==
    IF \E k \in DOMAIN published : published[k].done
    THEN CHOOSE k \in DOMAIN published :
             published[k].done /\ \A j \in 1 .. k - 1 : ~published[j].done
    ELSE 0

\* The scenario of C2: a GET /stream connection without Last-Event-ID that
\* subscribed before anything was published, and a conversation whose
\* envelopes 1..n, n at most the queue depth, end with the only done = true.
C2_Scenario(c) ==
    /\ kind[c] = "stream"
    /\ hdr[c] = NoHeader
    /\ pc[c] \in {"subscribed", "loop", "closing", "closed"}
    /\ status[c] = 200
    /\ subAt[c] = 0
    /\ FirstDone > 0
    /\ FirstDone <= QueueDepth

C2_Delivered(c) ==
    /\ pc[c] = "closed"
    /\ TokenEnvelopes(c) = SubSeq(published, 1, FirstDone)

\* C2 (lossless delivery when the queue never fills): in the scenario the
\* connection, unless the client goes away first, ends up closed by the
\* server with exactly the token events 1..n written, in that order, the
\* last one the terminal one; and it is never closed with anything else
\* written.
C2_Lossless ==
    /\ \A c \in Conns :
         (C2_Scenario(c) /\ ~ctxDone[c]) ~> (C2_Delivered(c) \/ ctxDone[c])
    /\ [](\A c \in Conns :
            (C2_Scenario(c) /\ ~ctxDone[c] /\ pc[c] \in {"closing", "closed"})
                => TokenEnvelopes(c) = SubSeq(published, 1, FirstDone))

\* the scenario with n = QueueDepth, delivered and closed by the server
C2_Witness ==
    \E c \in Conns :
        /\ C2_Scenario(c)
        /\ ~ctxDone[c]
        /\ FirstDone = QueueDepth
        /\ C2_Delivered(c)

\* C3 (terminal delivery): a token event with done = true is the last event
\* written on its connection (so it is the only one, and nothing queued or
\* arriving later follows it), and once it is written the loop has exited.
C3_TerminalDelivery ==
    \A c \in Conns :
        \A i \in DOMAIN out[c] :
            (IsToken(out[c][i]) /\ out[c][i].done)
                => /\ i = Len(out[c])
                   /\ pc[c] \in {"closing", "closed"}

\* a connection closed after its terminal event while an envelope was still
\* queued and a second done = true envelope had been published
C3_Witness ==
    \E c \in Conns :
        /\ pc[c] = "closed"
        /\ out[c] # <<>>
        /\ IsToken(out[c][Len(out[c])])
        /\ out[c][Len(out[c])].done
        /\ msgChan[c] # <<>>
        /\ \E k \in DOMAIN published :
              published[k].done /\ published[k].seq > out[c][Len(out[c])].id

\* C4 (backpressure): the token events written on a connection are the
\* envelopes its callback was run with, some left out: same order, none
\* twice.
C4_Backpressure ==
    \A c \in Conns : IsSubsequence(TokenEnvelopes(c), Arrived(c))

\* more envelopes than the queue holds arrived, one was dropped on the full
\* queue, and token events before and after the dropped one were written
C4_Witness ==
    \E c \in Conns :
        /\ nArrived[c] > QueueDepth
        /\ dropLog[c] # <<>>
        /\ Len(Tokens(c)) < nArrived[c]
        /\ \E i, j \in DOMAIN Tokens(c) :
              Tokens(c)[i].id < dropLog[c][1] /\ dropLog[c][1] < Tokens(c)[j].id
        /\ \E k \in DOMAIN Arrived(c) : Arrived(c)[k].seq = dropLog[c][1]

\* the callback is run with a decodable envelope that passes the filter
\* while the queue is full
CallbackOnFull(c) ==
    /\ Callback(c)
    /\ Len(msgChan[c]) = QueueDepth
    /\ Head(pending[c]).ok
    /\ ~(kind[c] = "stream" /\ SkipBeforeStart(startSequence[c], Head(pending[c])))

\* C5 (non-blocking enqueue, drop newest): the queue never holds more than
\* QueueDepth envelopes; the callback can always run when a message is
\* waiting for it; and run on a full queue it leaves the queue as it is and
\* (unless the connection is being torn down) logs the drop of the new
\* envelope.
C5_DropNewest ==
    /\ [](\A c \in Conns : Len(msgChan[c]) <= QueueDepth)
    /\ [](\A c \in Conns :
            (subActive[c] /\ pending[c] # <<>>) => ENABLED Callback(c))
    /\ [][\A c \in Conns :
            CallbackOnFull(c)
                => /\ msgChan'[c] = msgChan[c]
                   /\ ~doneChan[c] =>
                        dropLog'[c] = Append(dropLog[c], Head(pending[c]).seq)]_vars

\* an envelope was dropped on a full queue that still holds QueueDepth
\* envelopes, in arrival order
C5_Witness ==
    \E c \in Conns :
        /\ dropLog[c] # <<>>
        /\ Len(msgChan[c]) = QueueDepth
        /\ \A i \in DOMAIN msgChan[c] : msgChan[c][i].seq < dropLog[c][1]

\* a GET /stream request that carried Last-Event-ID: N, N a number >= 0
Resumed(c) == kind[c] = "stream" /\ hdr[c].kind = "num" /\ hdr[c].n >= 0

\* C6 (resume correctness): a GET /stream connection opened with
\* Last-Event-ID: N, N >= 0, never writes a token event whose id is <= N.
C6_ResumeCorrectness ==
    \A c \in Conns :
        Resumed(c) => \A i \in DOMAIN Tokens(c) : Tokens(c)[i].id > hdr[c].n

\* C6 restricted to the values of N whose successor is an int64: there the
\* filter drops every sequence <= N + 1.
C6_BelowMaxInt ==
    \A c \in Conns :
        (Resumed(c) /\ hdr[c].n < MaxInt)
            => \A i \in DOMAIN Tokens(c) : Tokens(c)[i].id > hdr[c].n

\* the client of connection c saw envelope N on an earlier connection:
\* envelope N was published before c subscribed
SawLastEventID(c) ==
    /\ Resumed(c)
    /\ hdr[c].n >= 1
    /\ hdr[c].n <= subAt[c]
    /\ hdr[c].n < MaxInt
    /\ pc[c] \in {"subscribed", "loop", "closing", "closed"}
    /\ status[c] = 200

\* C7 (gap-free resumption): on a connection resumed with Last-Event-ID: N,
\* once the callback has been run with envelope N + 1 (nothing dropped on a
\* full queue, connection not torn down), envelope N + 1 is queued or written:
\* it is not skipped.
C7_GapFree ==
    \A c \in Conns :
        (/\ SawLastEventID(c)
         /\ ~doneChan[c]
         /\ dropLog[c] = <<>>
         /\ \E k \in DOMAIN Arrived(c) : Arrived(c)[k].seq = hdr[c].n + 1)
            => \/ \E i \in DOMAIN msgChan[c] : msgChan[c][i].seq = hdr[c].n + 1
               \/ \E i \in DOMAIN Tokens(c) : Tokens(c)[i].id = hdr[c].n + 1

\* token event e of connection c was written from an envelope published
\* after c subscribed
Live(c, e) ==
    \E k \in DOMAIN published : k > subAt[c] /\ published[k] = EnvelopeOf(e)

\* C8 (replay on reconnect): on a connection resumed with Last-Event-ID: N,
\* the envelopes after N that were published while the client was away
\* (before the new subscription) are written before any live envelope.
C8_Replay ==
    \A c \in Conns :
        (SawLastEventID(c) /\ \E i \in DOMAIN Tokens(c) : Live(c, Tokens(c)[i]))
            => \A k \in (hdr[c].n + 1) .. subAt[c] :
                 \E i \in DOMAIN Tokens(c) :
                    /\ Tokens(c)[i] = TokenEvent(published[k])
                    /\ \A j \in DOMAIN Tokens(c) : Live(c, Tokens(c)[j]) => i < j

\* C9 (subscribe before generate): whenever the forwarding goroutine of a
\* POST /chat request exists, and so whenever the origin can have the request
\* and publish for it, the connection's subscription has been established (it
\* exists, or the connection has closed already).
C9_SubscribeBeforeGenerate ==
    \A c \in Conns :
        (fwd[c] # "none" \/ OriginMayPublish(c))
            => /\ kind[c] = "chat"
               /\ subActive[c] \/ pc[c] = "closed"
               /\ pc[c] \notin {"idle", "tracked"}

\* the origin has the forwarded request while the subscription exists
C9_Witness ==
    \E c \in Conns : OriginMayPublish(c) /\ subActive[c] /\ pc[c] = "loop"

\* a POST /chat request that got past validation and subscribed
ChatAccepted(c) ==
    /\ kind[c] = "chat"
    /\ connID[c] > 0
    /\ status[c] = 200
    /\ pc[c] \in {"connected", "loop", "closing", "closed"}

\* C10 (connected first): on an accepted POST /chat the connected event,
\* carrying the conversation id, is the first event written and is written
\* once; whatever else was written,
\* and the start of the forwarding goroutine, came after it.
C10_ConnectedFirst ==
    \A c \in Conns :
        /\ (kind[c] = "chat" /\ (out[c] # <<>> \/ fwd[c] # "none" \/ ChatAccepted(c)))
              => /\ out[c] # <<>>
                 /\ out[c][1] = ConnectedWith(conversationID[c])
                 /\ \A i \in DOMAIN out[c] : i > 1 => out[c][i].type # "connected"
        /\ kind[c] = "stream" => \A i \in DOMAIN out[c] : out[c][i].type # "connected"

\* a POST /chat response holding the connected event, a keep-alive, a token
\* event and an error event
C10_Witness ==
    \E c \in Conns :
        /\ ChatAccepted(c)
        /\ Len(out[c]) >= 4
        /\ \E i \in DOMAIN out[c] : out[c][i].type = "keepalive"
        /\ \E i \in DOMAIN out[c] : out[c][i].type = "token"
        /\ \E i \in DOMAIN out[c] : out[c][i].type = "error"

\* C11 (end-to-end /chat flow): the conversation id of an accepted POST /chat
\* is the one its connected event carries, and once the origin has the
\* forwarded request the id it generates and publishes under is that same id,
\* so that its envelopes go to the subject the connection subscribed to.
C11_EndToEnd ==
    \A c \in Conns :
        /\ ChatAccepted(c) => out[c][1].data = conversationID[c]
        /\ (kind[c] = "chat" /\ OriginMayPublish(c))
              => /\ originID[c] = conversationID[c]
                 /\ Subject(originID[c]) = Subject(conversationID[c])

\* the error events written on a connection
IsError(e) == e.type = "error"
Errors(c) == SelectSeq(out[c], IsError)
TimedOut(c) == \E i \in DOMAIN out[c] : out[c][i] = TimeoutErrorEvent

\* C12 (first-token timeout): on a POST /chat connection a timeout error
\* event is the only error event and the last event written, and the
\* connection closes with it; and if an envelope has been received (the
\* connection's callback was run with it) while the 30 s timer was still
\* running, no timeout error event is ever written on that connection.
C12_FirstTokenTimeout ==
    /\ [](\A c \in Conns :
            TimedOut(c) => /\ Len(Errors(c)) = 1
                           /\ out[c][Len(out[c])] = TimeoutErrorEvent
                           /\ pc[c] \in {"closing", "closed"})
    /\ \A c \in Conns :
          []((kind[c] = "chat" /\ timer[c] = "armed" /\ nArrived[c] > 0)
                => [](~TimedOut(c)))

\* the forwarding goroutine of c has reported a failure on errChan
ForwardFailed(c) ==
    /\ kind[c] = "chat"
    /\ fwd[c] \in {"failed", "done"}
    /\ errChan[c] # <<>>

C14_ErrorFinal ==
    /\ [](\A c \in Conns :
            /\ Len(Errors(c)) <= 1
            /\ Errors(c) # <<>> => /\ IsError(out[c][Len(out[c])])
                                   /\ kind[c] = "chat"
                                   /\ pc[c] \in {"closing", "closed"})
    /\ [][\A c \in Conns :
            /\ Errors(c) # <<>> => out'[c] = out[c]
            /\ fwd[c] \in {"posted", "done", "failed"} =>
                  /\ fwd'[c] \in {"posted", "done", "failed"}
                  /\ fwd[c] # "posted" => fwd'[c] = fwd[c]
                  /\ originID'[c] = originID[c]]_vars

\* the timeout error was written while a forwarding failure was waiting on
\* the error channel: both were ready, one error event came out
C14_Witness ==
    \E c \in Conns :
        /\ TimedOut(c)
        /\ errChan[c] # <<>>
        /\ pc[c] = "closed"
        /\ Len(Errors(c)) = 1

\* the entries of the bridge's source log with a given result
HasResult(e, r) == e.result = r
IsBridged(e) == HasResult(e, "bridged")
IsFailed(e) == HasResult(e, "failed")
Bridged == SelectSeq(sourceLog, IsBridged)
\* the source message decodes
Decodable(msg) == ~msg.nil /\ msg.payload.wellformed
\* the (conversation_id, sequence) pair of a published message
Pair(pub) == <<pub.data.val.conversation_id, pub.data.val.sequence>>

\* C15 (bridge idempotence under the window): a (conversation_id, sequence)
\* pair taken from the source twice in one run is republished at most once.
\* (The message loop reads no clock, so every run of the model is also a run
\* that takes less than the dedupe window.)
C15_Idempotence ==
    \A i, j \in DOMAIN natsLog : i < j => Pair(natsLog[i]) # Pair(natsLog[j])

\* C16 (bridge ordering): what the bridge has published is, message for
\* message and in receipt order, what it took from the source and decoded
\* and published without error: nothing reordered, nothing held back,
\* nothing published twice.
C16_BridgeOrdering ==
    /\ Len(natsLog) = Len(Bridged)
    /\ \A i \in DOMAIN natsLog :
          /\ Decodable(Bridged[i].msg)
          /\ Pair(natsLog[i]) = <<Bridged[i].msg.payload.val.conversation_id,
                                  Bridged[i].msg.payload.val.sequence>>
          /\ natsLog[i].data.val.done = Bridged[i].msg.payload.val.done

\* two conversations interleaved on the source with a failed publish in
\* between: both relayed, in receipt order
C16_Witness ==
    /\ Len(sourceLog) = 3
    /\ sourceLog[1].result = "bridged"
    /\ sourceLog[2].result = "failed"
    /\ sourceLog[3].result = "bridged"
    /\ Len(natsLog) = 2
    /\ Pair(natsLog[1]) = <<UUIDs[2], 2>>
    /\ Pair(natsLog[2]) = <<UUIDs[1], 1>>

\* C17 (bridge relay function): every message the bridge has published went
\* to the subject chat.{conversation_id}.tokens of the conversation_id its
\* payload carried, and each of the five envelope fields the payload carried
\* is published with the value received (sequence included).
C17_RelayFunction ==
    /\ Len(natsLog) = Len(Bridged)
    /\ \A i \in DOMAIN natsLog :
          LET p == Bridged[i].msg.payload
              id == IF "conversation_id" \in p.has THEN p.val.conversation_id ELSE ""
          IN /\ natsLog[i].subject = Subject(id)
             /\ natsLog[i].subject = <<"chat", id, "tokens">>
             /\ natsLog[i].data.wellformed
             /\ \A k \in p.has : natsLog[i].data.val[k] = p.val[k]

\* relayed: an envelope with a member the bridge does not know (done = true,
\* sequence 2) and an envelope of the other conversation
C17_Witness ==
    /\ Len(natsLog) = 2
    /\ Bridged[1].msg.payload.extra
    /\ natsLog[1].data.val = TokenMessage(UUIDs[1], "tok", 2, TRUE, 1)
    /\ natsLog[1].subject = Subject(UUIDs[1])
    /\ natsLog[2].subject = Subject(UUIDs[2])

\* C18 (bridge decode failure is skip-and-continue): a payload that does not
\* decode is logged and never published or counted as bridged; every
\* message that decodes is published unless the publish itself fails,
\* whatever came before it; and once in its loop the bridge leaves it only
\* on the quit signal.
C18_DecodeFailureSkipped ==
    /\ \A i \in DOMAIN sourceLog :
          LET e == sourceLog[i] IN
            /\ (~e.msg.nil /\ ~e.msg.payload.wellformed) <=> e.result = "undecodable"
            /\ Decodable(e.msg) <=> e.result \in {"bridged", "failed"}
    /\ Len(natsLog) = Len(Bridged)
    /\ msgCount = Len(Bridged)
    /\ sourceLog # <<>> => (bridgePC = "loop" \/ (bridgePC = "exited" /\ exitStatus = 0))

\* an undecodable payload, then an envelope: the envelope was relayed and
\* the bridge is still in its loop
C18_Witness ==
    /\ Len(sourceLog) = 2
    /\ sourceLog[1].msg = Message(Garbled)
    /\ sourceLog[2].result = "bridged"
    /\ Len(natsLog) = 1
    /\ bridgeLog = <<"Failed to unmarshal message">>
    /\ bridgePC = "loop"

\* every counter the bridge keeps (line 135)
BridgeCounters == <<msgCount>>
\* the step takes a message whose publish fails
PublishFails ==
    /\ Len(sourceLog') = Len(sourceLog) + 1
    /\ IsFailed(sourceLog'[Len(sourceLog')])

\* C19 (bridge publish failure is non-fatal): a step whose publish fails
\* logs the failure and counts it (a counter of the bridge changes), does
\* not count the message as bridged, publishes nothing, and leaves the
\* bridge in its loop.
C19_PublishFailure ==
    [][PublishFails =>
          /\ bridgeLog' = Append(bridgeLog, "Failed to publish to NATS")
          /\ natsLog' = natsLog
          /\ bridgePC' = "loop"
          /\ exitStatus' = 0
          /\ msgCount' = Len(Bridged')
          /\ BridgeCounters' # BridgeCounters]_vars

\* the startup failures the bridge logs
StartupFailures ==
    {"Failed to connect to Redis", "Failed to connect to NATS",
     "Failed to subscribe to Redis channel"}

\* C20 (bridge startup failure is fatal): when the Redis connection, the
\* NATS connection or the source subscription fails at startup, the bridge
\* has exited with status 1 without having taken a message or published
\* one; and it exits with a non-zero status in no other case.
C20_StartupFatal ==
    /\ (\E i \in DOMAIN bridgeLog : bridgeLog[i] \in StartupFailures)
          => /\ bridgePC = "exited"
             /\ exitStatus = 1
             /\ sourceLog = <<>>
             /\ natsLog = <<>>
             /\ msgCount = 0
             /\ Len(bridgeLog) = 1
    /\ exitStatus # 0
          => /\ bridgePC = "exited"
             /\ bridgeLog # <<>>
             /\ bridgeLog[Len(bridgeLog)] \in StartupFailures

\* Redis and NATS connected, the source subscription failed: exit status 1
C20_Witness ==
    /\ bridgePC = "exited"
    /\ exitStatus = 1
    /\ bridgeLog = <<"Failed to subscribe to Redis channel">>

\* the callback is run with a payload that does not decode
MalformedArrives(c) ==
    /\ Callback(c)
    /\ Head(pending[c]) = Malformed

\* C21 (malformed envelope is contained): the callback run with a payload
\* that does not decode only consumes it: nothing is written, the queue, the
\* loop state (receivedFirstToken and the first-token timer included), the
\* connection's position and its subscription stay as they are, so that
\* whatever arrives afterwards meets the connection as if the payload had
\* never come; and the callback can always be run with the next message.
C21_MalformedContained ==
    /\ [][\A c \in Conns :
            MalformedArrives(c)
                => /\ pending'[c] = Tail(pending[c])
                   /\ UNCHANGED <<connVars, subActive, subAt, nArrived, msgChan,
                                  doneChan, dropLog, loopVars, fwdVars, published,
                                  connCount, activeConnections, subscriptions>>]_vars
    /\ [](\A c \in Conns :
            (subActive[c] /\ pending[c] # <<>>) => ENABLED Callback(c))

\* a payload that does not decode is handed to a POST /chat connection that
\* is waiting for its first token with the timer running
C21_Witness ==
    \E c \in Conns :
        /\ kind[c] = "chat"
        /\ pc[c] = "loop"
        /\ timer[c] = "armed"
        /\ ~receivedFirstToken[c]
        /\ subActive[c]
        /\ pending[c] # <<>>
        /\ Head(pending[c]) = Malformed
        /\ ENABLED MalformedArrives(c)

\* C22 (client disconnect always wins): once the request context is
\* cancelled, no event is written on the connection any more, whatever else
\* is ready for the loop.
C22_DisconnectWins ==
    [][\A c \in Conns : ctxDone[c] => out'[c] = out[c]]_vars

\* the connection's subscription is released
Released(c) ==
    /\ pc[c] = "closed"
    /\ ~subActive[c]
    /\ connID[c] \notin subscriptions

\* C23 (disconnect liveness): under fair scheduling, once the request
\* context of an open connection is cancelled the loop exits and the
\* subscription is released, whatever is queued or still arriving.
C23_DisconnectLiveness ==
    \A c \in Conns : ctxDone[c] ~> Released(c)

\* the client went away with envelopes queued and more published after the
\* ones the connection had received; the connection is closed and its
\* subscription released without a terminal event
C23_Witness ==
    \E c \in Conns :
        /\ ctxDone[c]
        /\ Released(c)
        /\ msgChan[c] # <<>>
        /\ Len(published) > subAt[c] + nArrived[c]
        /\ \A i \in DOMAIN out[c] : ~out[c][i].done

\* the loop of connection c has exited: by the client's disconnect, after a
\* terminal envelope, after a forwarding error or after the first-token timeout
LoopExited(c) == pc[c] \in {"closing", "closed"} /\ doneChan[c]

\* C24 (subscription release on every close path): a connection holds its
\* subscription and its registry entry from its successful subscribe until
\* the teardown that follows the exit of its loop, whichever exit that was;
\* the teardown releases both in one step, they never come back, and with
\* every connection closed the registry is empty.
C24_SubscriptionRelease ==
    /\ [](\A c \in Conns :
            /\ subActive[c] <=> pc[c] \in {"subscribed", "connected", "loop", "closing"}
            /\ subActive[c] <=> (connID[c] > 0 /\ connID[c] \in subscriptions)
            /\ pc[c] = "closed" => ~subActive[c] /\ connID[c] \notin subscriptions)
    /\ []((\A c \in Conns : pc[c] = "closed") => subscriptions = {})
    /\ [][\A c \in Conns :
            /\ (subActive[c] /\ ~subActive'[c])
                  => /\ LoopExited(c)
                     /\ pc'[c] = "closed"
                     /\ subscriptions' = subscriptions \ {connID[c]}
            /\ (~subActive[c] /\ subActive'[c]) => pc[c] = "tracked"
            /\ pc[c] = "closed" => pc'[c] = "closed"]_vars

\* a POST /chat connection closed after a forwarding error with envelopes
\* still queued: subscription and registry entry are gone
C24_Witness ==
    \E c \in Conns :
        /\ kind[c] = "chat"
        /\ pc[c] = "closed"
        /\ connID[c] > 0
        /\ out[c] # <<>>
        /\ out[c][Len(out[c])] = ForwardErrorEvent
        /\ msgChan[c] # <<>>
        /\ ~subActive[c]
        /\ subscriptions = {}

\* the request of connection c was answered by the checks at the top of its
\* handler (the handler returned before tracking a connection)
Rejected(c) == pc[c] = "closed" /\ ~doneChan[c] /\ status[c] # 500

\* the request of connection c left nothing behind
NoEffect(c) ==
    /\ connID[c] = 0
    /\ ~subActive[c]
    /\ nArrived[c] = 0
    /\ out[c] = <<>>
    /\ fwd[c] = "none"
    /\ originID[c] = ""
    /\ errChan[c] = <<>>
    /\ timer[c] = "none"

\* C25 as stated (rejected requests have no effect): every request the
\* validation turns down, a non-POST request to /chat included, is answered
\* with an error status and has no effect.
C25_RejectedWithError ==
    \A c \in Conns : Rejected(c) => status[c] >= 400 /\ NoEffect(c)

\* C25 (rejected requests have no effect), amended: a request turned down
\* by the validation is answered 400, 405 or 503, or 200 when it is an
\* OPTIONS request to /chat; it got no connection id, opened no
\* subscription, wrote no event and forwarded nothing, and the step that
\* turns it down leaves the counters, the registry and the bus alone.
C25_RejectedNoEffect ==
    /\ [](\A c \in Conns :
            Rejected(c)
                => /\ status[c] \in {200, 400, 405, 503}
                   /\ status[c] \in {200, 405, 503} => kind[c] = "chat"
                   /\ NoEffect(c))
    /\ [][\A c \in Conns :
            (~Rejected(c) /\ Rejected(c)')
                => /\ pc[c] = "idle"
                   /\ UNCHANGED <<connCount, activeConnections, subscriptions,
                                  published, pending, connID, out, fwd>>]_vars

\* a POST /chat request was answered 400 (empty message or undecodable body)
C25_Witness ==
    \E c \in Conns :
        /\ kind[c] = "chat"
        /\ Rejected(c)
        /\ status[c] = 400
        /\ connCount = 0

IsPublished(e) == e.ok
\* the envelopes of request r's conversation that reached Redis, in order
OriginPublished(r) == SelectSeq(redisLog[r], IsPublished)
\* the positions of the terminal envelopes among r's publishToken calls
Terminals(r) == {i \in DOMAIN redisLog[r] : redisLog[r][i].done}

\* C26 (producer sequence numbering): for every conversation the k-th
\* envelope the origin hands to publishToken carries sequence k, so the
\* envelopes that reach Redis carry strictly increasing sequence numbers
\* from 1 on, in publish order; and an envelope with done = true is the last
\* one of its conversation, carries its highest sequence number, and ends
\* the generation.
C26_SequenceNumbering ==
    \A r \in Requests :
        /\ \A i \in DOMAIN redisLog[r] : redisLog[r][i].seq = i
        /\ \A i, j \in DOMAIN OriginPublished(r) :
              i < j => OriginPublished(r)[i].seq < OriginPublished(r)[j].seq
        /\ \A i \in DOMAIN OriginPublished(r) : OriginPublished(r)[i].seq >= 1
        /\ \A i \in Terminals(r) :
              /\ i = Len(redisLog[r])
              /\ \A j \in DOMAIN redisLog[r] : redisLog[r][j].seq <= redisLog[r][i].seq
              /\ genPC[r] = "returned"

\* a conversation of two tokens and the terminal envelope, the second token
\* lost on its way to Redis, while another conversation is being generated
C26_Witness ==
    \E r, q \in Requests :
        /\ r # q
        /\ Len(redisLog[r]) = 3
        /\ ~redisLog[r][2].ok
        /\ redisLog[r][3].done
        /\ redisLog[r][3].ok
        /\ genPC[q] = "streaming"
        /\ redisLog[q] # <<>>

\* C27 (exactly one terminal envelope per conversation): when streamFromLLM
\* has returned, it has handed exactly one envelope with done = true to
\* publishToken, whichever way it returned.
C27_OneTerminal ==
    \A r \in Requests :
        genPC[r] = "returned" => Cardinality(Terminals(r)) = 1

\* C28 (no duplicate delivery): no envelope of the source is written twice
\* on a connection, also with two bridge instances relaying the source: the
\* token events of a connection have pairwise different ids.
C28_NoDuplicateDelivery ==
    \A c \in Conns :
        \A i, j \in DOMAIN Tokens(c) : i < j => Tokens(c)[i].id # Tokens(c)[j].id

\* C29 (resume-point filter invariant): on a GET /stream connection whose
\* start sequence s is >= 0, no envelope with a sequence <= s is queued or
\* written as a token event, whatever sequence numbers arrive (0 included).
C29_ResumeFilter ==
    \A c \in Conns :
        (kind[c] = "stream" /\ startSequence[c] >= 0)
            => /\ \A i \in DOMAIN msgChan[c] : msgChan[c][i].seq > startSequence[c]
               /\ \A i \in DOMAIN Tokens(c) : Tokens(c)[i].id > startSequence[c]

\* the envelopes connection c has accepted into its queue, in order: those
\* written already, then those still queued
Accepted(c) == TokenEnvelopes(c) \o msgChan[c]

\* C30 (FIFO delivery): the envelopes a connection has accepted, written
\* ones first, are envelopes it received, in arrival order, whatever their
\* sequence numbers; an accepted envelope joins the queue at its end, the
\* loop writes the one at the head, and nothing else changes the order.
C30_FIFO ==
    /\ [](\A c \in Conns : IsSubsequence(Accepted(c), Arrived(c)))
    /\ [][\A c \in Conns :
            \/ Tokens(c)' = Tokens(c) /\ msgChan'[c] = msgChan[c]
            \/ /\ Callback(c)
               /\ Tokens(c)' = Tokens(c)
               /\ msgChan'[c] = Append(msgChan[c], Head(pending[c]))
            \/ /\ msgChan[c] # <<>>
               /\ Tokens(c)' = Append(Tokens(c), TokenEvent(Head(msgChan[c])))
               /\ msgChan'[c] = Tail(msgChan[c])]_vars

\* token events written in arrival order with ids that go down and repeat
C30_Witness ==
    \E c \in Conns :
        /\ Len(Tokens(c)) = MaxSource
        /\ Tokens(c)[1].id > Tokens(c)[2].id
        /\ Tokens(c)[3].id = Tokens(c)[1].id
        /\ TokenEnvelopes(c) = published

\* C31 (keep-alive independence): the step that writes a keep-alive comment
\* writes that one frame and takes the tick out of the ticker's channel, and
\* changes nothing else: not the queue, not receivedFirstToken, not the
\* first-token timer, not the connection's position.  And a step that writes
\* a token event and stays in the loop leaves the keep-alive ticker as it was
\* (a pending tick stays pending, the number of ticks is the same).
C31_KeepAliveIndependence ==
    [][\A c \in Conns :
         /\ (out'[c] = Append(out[c], KeepAliveEvent)) =>
               /\ tick[c] /\ ~tick'[c]
               /\ UNCHANGED <<connVars, subVars, ctxDone, kaTicks, timer,
                              receivedFirstToken, fwdVars, globalVars>>
         /\ (Tokens(c)' # Tokens(c) /\ pc'[c] = "loop") =>
               /\ tick'[c] = tick[c]
               /\ kaTicks'[c] = kaTicks[c]]_vars

\* a keep-alive was written on a POST /chat connection that still waits for
\* its first token, with an envelope queued and the timer running or expired
C31_Witness ==
    \E c \in Conns :
        /\ kind[c] = "chat"
        /\ pc[c] = "loop"
        /\ out[c] # <<>>
        /\ out[c][Len(out[c])] = KeepAliveEvent
        /\ ~receivedFirstToken[c]
        /\ timer[c] \in {"armed", "fired"}
        /\ msgChan[c] # <<>>

\* C32 (AWAITING_FIRST to STREAMING is one-way): on a POST /chat connection
\* that has written a token event receivedFirstToken is set and the
\* first-token timer no longer runs (it is stopped, or its expiry sits
\* unread in its channel), and the stream holds no timeout error event: a
\* stream never has both a token event and a timeout error.
C32_OneWay ==
    \A c \in Conns :
        (kind[c] = "chat" /\ Tokens(c) # <<>>) =>
            /\ receivedFirstToken[c]
            /\ timer[c] \in {"idle", "fired"}
            /\ ~TimedOut(c)

\* the timer had expired and its expiry had not been read when the loop took
\* the first envelope; the loop then read the expiry, wrote nothing for it
\* and went on
C32_Witness ==
    \E c \in Conns :
        /\ kind[c] = "chat"
        /\ pc[c] = "loop"
        /\ Tokens(c) # <<>>
        /\ timer[c] = "fired"
        /\ ENABLED LoopTimeout(c)

\* the forward error events written on connection c: the reads of errChan
ErrorReads(c) == SelectSeq(out[c], LAMBDA e : e = ForwardErrorEvent)

\* C33 (single-shot error slot): the error channel never holds more than the
\* one value it has room for; the values written to it (still in it, or read
\* by the loop and written out as an error event) are at most one per
\* request; a value in it means the forwarding goroutine has ended; and
\* while the goroutine can still write, the slot is empty and nothing was
\* ever read from it, so its send finds room whatever the loop is doing,
\* also when the handler has returned: the send step is enabled then.
C33_SingleShotErrorSlot ==
    \A c \in Conns :
        /\ Len(errChan[c]) <= 1
        /\ Len(errChan[c]) + Len(ErrorReads(c)) <= 1
        /\ errChan[c] # <<>> => fwd[c] \in {"failed", "done"}
        /\ fwd[c] \in {"running", "posted"} =>
              /\ errChan[c] = <<>>
              /\ ErrorReads(c) = <<>>
              /\ ENABLED ForwardError(c)

\* the loop left with the terminal envelope and the handler returned; the
\* origin's error answer sits in the slot, which nobody reads any more, and
\* the forwarding goroutine has ended
C33_Witness ==
    \E c \in Conns :
        /\ pc[c] = "closed"
        /\ ~ctxDone[c]
        /\ out[c] # <<>>
        /\ out[c][Len(out[c])].type = "token"
        /\ errChan[c] = <<"err">>
        /\ fwd[c] = "done"

\* the handlers that have passed connection tracking and not yet returned
InFlight == {c \in DOMAIN pc : pc[c] \notin {"idle", "closed"}}

\* C40 (connection accounting): with two requests served concurrently, in
\* every reachable state the active-connections gauge is the number of
\* handlers that have passed connection tracking and not returned; so it is
\* never negative and it is zero when no connection is open.
C40_ConnectionAccounting ==
    /\ activeConnections = Cardinality(InFlight)
    /\ activeConnections >= 0
    /\ InFlight = {} => activeConnections = 0

\* two handlers overlapped: d was tracked first and is still in its loop, c
\* was tracked after it and has already returned through the failed
\* subscribe; the gauge went 1, 2, 1
C40_Witness ==
    \E c, d \in DOMAIN pc :
        /\ pc[d] = "loop"
        /\ pc[c] = "closed" /\ status[c] = 500
        /\ connID[d] < connID[c]
        /\ activeConnections = 1

\* the envelopes that reached connection c's callback and passed its
\* start-sequence filter
Wanted(c) ==
    SelectSeq(Arrived(c), LAMBDA m : ~SkipBeforeStart(startSequence[c], m))

\* of those, the ones connection c did not drop itself
Kept(c) ==
    SelectSeq(Wanted(c),
              LAMBDA m : \A i \in DOMAIN dropLog[c] : dropLog[c][i] # m.seq)

\* C34 (connection isolation): with two connections on the same
\* conversation, every publication made while a connection is subscribed
\* reaches that connection's callback, and until its own teardown begins
\* what a connection has accepted (written, or still queued) is exactly what
\* reached it and passed its own filter, less what it dropped itself: the
\* other connection's queue, drops, disconnect and teardown do not enter.
C34_Isolation ==
    \A c \in ConnPair :
        /\ subActive[c] =>
              nArrived[c] + Len(pending[c]) = Len(published) - subAt[c]
        /\ (~doneChan[c] /\ pending[c] = <<>>) => Accepted(c) = Kept(c)

\* one connection has written every envelope of the conversation while the
\* other, subscribed as early, let its queue fill up, dropped, and was
\* disconnected
C34_Witness ==
    \E c \in ConnPair : \E d \in ConnPair \ {c} :
        /\ Len(published) = MaxSource
        /\ TokenEnvelopes(c) = published
        /\ subAt[d] = 0
        /\ dropLog[d] # <<>>
        /\ ctxDone[d]

\* everything the handler, callback, loop and forwarding goroutine of one
\* request read and write
Local(c) ==
    <<pc[c], kind[c], hdr[c], startSequence[c], status[c], connID[c],
      conversationID[c], subActive[c], subAt[c], pending[c], nArrived[c],
      msgChan[c], doneChan[c], dropLog[c], out[c], ctxDone[c], tick[c],
      kaTicks[c], timer[c], receivedFirstToken[c], errChan[c], fwd[c],
      originID[c]>>

\* the step in which request c's subscribe fails
SubscribeFails(c) == status[c] # 500 /\ status'[c] = 500

\* C35 (bus subscribe failure): a request whose subscribe failed has ended
\* with status 500 and nothing else: no event written, no subscription, no
\* registry entry, no done signal, no forwarding goroutine, no timer; the
\* gauge counts it no longer (it is the number of handlers between tracking
\* and return); and the failing step takes the gauge down by the one the
\* request had added, leaves the registry as it was and changes nothing of
\* the other request.
C35_SubscribeFailure ==
    /\ [](/\ activeConnections = Cardinality(InFlight)
          /\ \A c \in ConnPair :
               status[c] = 500 =>
                  /\ pc[c] = "closed"
                  /\ out[c] = <<>>
                  /\ ~subActive[c]
                  /\ connID[c] \notin subscriptions
                  /\ ~doneChan[c]
                  /\ fwd[c] = "none"
                  /\ timer[c] = "none" /\ ~tick[c])
    /\ [][\A c \in ConnPair :
            SubscribeFails(c) =>
               /\ pc[c] = "tracked"
               /\ activeConnections' = activeConnections - 1
               /\ subscriptions' = subscriptions
               /\ \A d \in ConnPair \ {c} : Local(d)' = Local(d)]_vars

\* a POST /chat request failed to subscribe while an earlier request was
\* being served, and that one is still in its loop, subscribed and registered
C35_Witness ==
    \E c \in ConnPair : \E d \in ConnPair \ {c} :
        /\ kind[c] = "chat"
        /\ status[c] = 500
        /\ connID[d] < connID[c]
        /\ pc[d] = "loop"
        /\ subActive[d]
        /\ subscriptions = {connID[d]}
        /\ activeConnections = 1

\* the last thing the message loop took from msgCh was a nil message: the
\* source's message stream has ended or failed
SourceLost ==
    /\ sourceLog # <<>>
    /\ sourceLog[Len(sourceLog)].msg.nil

\* C36 (bridge loss of source terminates the process): once the message
\* loop has taken a nil message from its source, the bridge process has
\* terminated.
C36_SourceLossTerminates ==
    SourceLost => bridgePC = "exited"

\* connection c's callback dropped an envelope published with done = true
TerminalDropped(c) ==
    \E i \in DOMAIN dropLog[c] : \E k \in DOMAIN published :
        /\ published[k].seq = dropLog[c][i]
        /\ published[k].done

\* C37 (the terminal envelope under backpressure): an envelope the callback
\* dropped, the terminal one included, is never written; and the loop is
\* left in four ways only: the client has disconnected, or the last event
\* written is a token event with done = true, or it is a forward error event
\* (POST /chat), or it is the timeout error event, and that one only on a
\* stream without any token event.  So a connection whose terminal envelope
\* was dropped and which has written a token stays open, keep-alives and
\* all, until the client disconnects or a forwarding error arrives.
C37_TerminalDropped ==
    \A c \in Conns :
        /\ \A i \in DOMAIN dropLog[c] : \A j \in DOMAIN out[c] :
              ~(IsToken(out[c][j]) /\ out[c][j].id = dropLog[c][i])
        /\ LoopExited(c) =>
              \/ ctxDone[c]
              \/ /\ IsToken(out[c][Len(out[c])])
                 /\ out[c][Len(out[c])].done
              \/ out[c][Len(out[c])] = ForwardErrorEvent
              \/ /\ out[c][Len(out[c])] = TimeoutErrorEvent
                 /\ Tokens(c) = <<>>

\* the terminal envelope arrived on a full queue and was dropped; the loop
\* has since written the queued tokens and a keep-alive, and is still open
\* with nothing left to write
C37_Witness ==
    \E c \in Conns :
        /\ TerminalDropped(c)
        /\ pc[c] = "loop"
        /\ ~ctxDone[c]
        /\ msgChan[c] = <<>>
        /\ pending[c] = <<>>
        /\ Len(Tokens(c)) >= QueueDepth
        /\ \A i \in DOMAIN out[c] : ~out[c][i].done
        /\ out[c][Len(out[c])] = KeepAliveEvent

\* C38 (a forwarding failure ends the stream regardless of progress): while
\* the loop of a POST /chat connection runs with an error on the error
\* channel, its error case is ready however many token events it has
\* written; and a stream that holds a forward error event ends with it, the
\* handler has left the loop, and none of the token events before it is a
\* done event.
C38_ForwardFailureAfterTokens ==
    \A c \in Conns :
        /\ (pc[c] = "loop" /\ errChan[c] # <<>>) => ENABLED LoopError(c)
        /\ ErrorReads(c) # <<>> =>
              /\ out[c][Len(out[c])] = ForwardErrorEvent
              /\ LoopExited(c)
              /\ \A i \in DOMAIN Tokens(c) : ~Tokens(c)[i].done

\* the connected event, two token events, then the forward error event, and
\* the connection closed by it: tokens, an error, no done
C38_Witness ==
    \E c \in Conns :
        /\ pc[c] = "closed"
        /\ Len(out[c]) = 4
        /\ out[c][1] = ConnectedWith(conversationID[c])
        /\ IsToken(out[c][2]) /\ ~out[c][2].done
        /\ IsToken(out[c][3]) /\ ~out[c][3].done
        /\ out[c][4] = ForwardErrorEvent

\* C39 (teardown is race-safe): the done signal is closed by the return
\* from the loop and only then (it is closed exactly while the handler is
\* closing or closed after its loop), and no step that would close it again
\* is possible once it is closed; the callback can run whenever a message
\* waits for it, before, during and after the closing of the done signal,
\* and never leaves more than QueueDepth envelopes in the queue; and the
\* rest of the teardown can run as soon as the loop is left, whether or not
\* a message still waits for the callback.
C39_TeardownRaceSafe ==
    \A c \in Conns :
        /\ doneChan[c] => pc[c] \in {"closing", "closed"}
        /\ pc[c] = "closing" => (doneChan[c] /\ ENABLED Teardown(c))
        /\ doneChan[c] =>
              /\ ~ENABLED LoopDisconnect(c)
              /\ ~ENABLED LoopToken(c)
              /\ ~ENABLED LoopError(c)
              /\ ~ENABLED LoopTimeout(c)
        /\ (subActive[c] /\ pending[c] # <<>>) => ENABLED Callback(c)
        /\ Len(msgChan[c]) <= QueueDepth

\* the loop has returned and closed the done signal, the subscription is
\* still there, and the callback is about to run its select with an envelope
\* and room in the queue: both the send and the done case are ready
C39_Witness ==
    \E c \in Conns :
        /\ pc[c] = "closing"
        /\ doneChan[c]
        /\ subActive[c]
        /\ pending[c] # <<>>
        /\ Head(pending[c]).ok
        /\ SelectOutcomes(msgChan[c], doneChan[c]) = {"send", "done"}

====
